---------------------------- MODULE Spec2Model ----------------------------
(***************************************************************************)
(* Verification model of the node binaries and the wallet library.         *)
(*                                                                         *)
(*   WalletSpec   the wallet DB (src/wallet/mod.rs) used by one caller:     *)
(*                every public operation is one atomic action.             *)
(*   ComputeSpec  the compute binary's event loop (src/bin/compute.rs).     *)
(*   MainSpec     fn main of the compute binary beside its event loop.      *)
(*   LockSpec     two tasks sharing the wallet DB handle, one action per    *)
(*                mutex acquisition, DB access and release.                *)
(*   StorageSpec  fn main of the storage binary and its four tasks.         *)
(*   LoopsSpec    the event loops of the compute and the storage binary.    *)
(*   UserSpec     fn main of the user binary and its tasks; UserFairSpec    *)
(*                adds the fairness of the executor.                       *)
(*   UpgradeSpec  fn configuration of the upgrade binary.                   *)
(*   ProcessSpec  the upgrade binary from its command line to its exit.     *)
(*   AddressSpec  construct_address, statement by statement.                *)
(***************************************************************************)
EXTENDS Integers, Sequences, FiniteSets, TLC

(***************************************************************************)
(* Bounds of the model.                                                    *)
(***************************************************************************)
MaxOutPoints == 2   \* OutPoints are 1..MaxOutPoints, in their (t_hash, n) order
MaxAmount    == 2   \* TokenAmount values 0..MaxAmount for one output
MaxKeys      == 2   \* key pairs sign::gen_keypair can hand out
MaxTotal     == 3   \* cap of FundStore.running_total
MaxRequired  == 2   \* amount_required ranges over 0..MaxRequired

OutPoints == 1..MaxOutPoints
Amounts   == 0..MaxAmount
Keys      == 1..MaxKeys
\* Option<T>: None, or Some(x) holding x
None      == <<>>
Some(x)   == <<x>>

VARIABLES
    fund_store,         \* DB entry FUND_KEY: FundStore
    address_store,      \* DB entry ADDRESS_KEY: the addresses with a key pair
    transaction_store,  \* DB entries keyed by OutPoint: OutPoint -> address
    poisoned,           \* the Mutex<SimpleDb> is poisoned (a panic under the lock)
    next_key,           \* the next key pair sign::gen_keypair returns
    last                \* the last call: its arguments, its result, the DB before it

walletVars == <<fund_store, address_store, transaction_store, poisoned, next_key, last>>

MaxMiners == 3   \* miner endpoints are 1..MaxMiners
MaxRounds == 2   \* block rounds the compute node runs

Miners == 1..MaxMiners
Rounds == 1..MaxRounds

\* PARTITION_SIZE of the compute node: the length at which the list is full
PARTITION_SIZE == 2

VARIABLES
    compute_pc,         \* the request task: "poll", "match", "panicked", "ended"
    response,           \* the Response handle_next_event returned, being matched
    partition_list,     \* node.partition_list
    storage_connected,  \* the result of connect_to_storage at startup
    current_block,      \* node.has_current_block()
    round,              \* the block round the node is in
    challenging,        \* the round's partition has filled (state Challenging)
    handled,            \* the last response handled, and the list it found
    sent,               \* what the last handler sent: a sequence of [kind, to]
    block_sent,         \* per round: the calls of send_block_to_storage
    block_acked,        \* per round: Storage has acknowledged the block
    block_found         \* per round: the block-found notification was flooded

computeVars ==
    <<compute_pc, response, partition_list, storage_connected, current_block,
      round, challenging, handled, sent, block_sent, block_acked, block_found>>

MaxCalls == 2    \* WalletDb calls the two tasks make between them
MaxSeeds == 1    \* seeds with_seed is given for this wallet

\* the tasks that hold a clone of the WalletDb handle: the user node's main
\* loop and the HTTP API
Tasks == {"main", "api"}

VARIABLES
    mutex,              \* the Mutex<SimpleDb>: "free" or the task that holds it
    tasks               \* per task: where its WalletDb call is, and its locals

lockVars == <<mutex, tasks>>

MaxPeers == 2    \* the storage node expects the peers 1..MaxPeers
MaxBlocks == 2   \* blocks the Raft apply handler stores

Peers == 1..MaxPeers

VARIABLES
    storage             \* the storage binary: pc of fn main, the four tasks
                        \* (main_loop, raft_loop, conn_loop, disconn_loop),
                        \* connected peers, the response being matched, the
                        \* blocks stored and acks emitted, the shutdown log

MaxEvents == 3   \* events that reach the user node

VARIABLES
    user                \* the user binary: pc of fn main, the request task,
                        \* the control loops, the HTTP API task (warp),
                        \* connected peers, the events arrived and handled,
                        \* what was sent, the log

MaxNodes == 2    \* nodes of one type in the settings file
MaxIgnored == 1  \* names in the --ignore list
MaxRuns == 2     \* runs of the upgrade tool on the same databases

VARIABLES
    upgrade             \* the upgrade binary: pc of fn main, the command line
                        \* (args), the settings file, and what configuration
                        \* returned (db_modes, raft_len)

MaxSpins == 2    \* iterations of the final loop of the compute binary's main

VARIABLE compute_main   \* fn main of the compute binary after it spawned the
                        \* request task: its position (pc), the iterations
                        \* of its final loop, and whether it made one after
                        \* the request task had ended

VARIABLE addr           \* a call of construct_address: its position (pc),
                        \* arguments, the bytes it holds, the state and round
                        \* of the digest under way, and the result

\* the variables of the binaries other than compute
binVars == <<storage, user, upgrade, addr, compute_main>>

vars == <<walletVars, computeVars, lockVars, binVars>>

(***************************************************************************)
(* Helpers on maps (BTreeMap) and sequences.                               *)
(***************************************************************************)
EmptyMap == [x \in {} |-> 0]

MapInsert(m, k, v) == [x \in DOMAIN m \cup {k} |-> IF x = k THEN v ELSE m[x]]

MapRemove(m, k) == [x \in DOMAIN m \ {k} |-> m[x]]

Min(S) == CHOOSE x \in S : \A y \in S : x <= y

RECURSIVE SortedKeys(_)
\* BTreeMap::keys(): the keys in ascending order
SortedKeys(S) ==
    IF S = {} THEN <<>> ELSE <<Min(S)>> \o SortedKeys(S \ {Min(S)})

RECURSIVE SumValues(_)
SumValues(m) ==
    IF DOMAIN m = {} THEN 0
    ELSE LET k == Min(DOMAIN m) IN m[k] + SumValues(MapRemove(m, k))

RECURSIVE SumSeq(_, _)
\* the sum of m over the OutPoints of the sequence s
SumSeq(m, s) == IF s = <<>> THEN 0 ELSE m[Head(s)] + SumSeq(m, Tail(s))

Range(s) == {s[i] : i \in DOMAIN s}


(***************************************************************************)
(* The wallet DB accessors (free functions at the end of wallet/mod.rs).   *)
(* A wallet value w is the record [fund, addrs, txs, poisoned] of the DB   *)
(* content and the state of the mutex that guards it.                      *)
(***************************************************************************)
\* FundStore::default()
DefaultFundStore == [running_total |-> 0, transactions |-> EmptyMap]

\* get_fund_store: the stored FundStore (the default one is what Init stores)
GetFundStore(w) == w.fund

\* set_fund_store: db.put(FUND_KEY, fund_store)
SetFundStore(w, fund) == [w EXCEPT !.fund = fund]

\* get_address_stores
GetAddressStores(w) == w.addrs

\* set_address_stores: db.put(ADDRESS_KEY, address_store)
SetAddressStores(w, addrs) == [w EXCEPT !.addrs = addrs]

\* get_transaction_store finds an entry for tx_hash (it panics otherwise)
HasTransactionStore(w, tx_hash) == tx_hash \in DOMAIN w.txs

\* get_transaction_store(tx_hash).address
GetTransactionStore(w, tx_hash) == w.txs[tx_hash]

\* delete_key(serialize(tx_hash))
DeleteKey(w, tx_hash) == [w EXCEPT !.txs = MapRemove(@, tx_hash)]

\* an address that does not depend on the public key
SameAddress(public_key) == 1

\* construct_address(public_key, NETWORK_VERSION).address: a truncated hash
\* of the key, taken to be collision free; key pair k has address k
ConstructAddress(public_key) == public_key

(***************************************************************************)
(* save_address_to_wallet, save_transactions_to_wallet,                    *)
(* save_payment_to_wallet: the closure run under the lock.                 *)
(***************************************************************************)
SaveAddressToWallet(w, address) ==
    SetAddressStores(w, GetAddressStores(w) \cup {address})

SaveTransactionToWallet(w, tx_hash, address) ==
    [w EXCEPT !.txs = MapInsert(@, tx_hash, address)]

SavePaymentToWallet(w, hash, amount) ==
    LET fund == GetFundStore(w)
    IN  SetFundStore(w, [running_total |-> fund.running_total + amount,
                         transactions  |-> MapInsert(fund.transactions, hash, amount)])

(***************************************************************************)
(* fetch_inputs_for_payment. The loop state st is                          *)
(*   w        the wallet DB (construct_tx_in_from_prev_out writes to it)   *)
(*   fund     the local fund_store, written back after the loop            *)
(*   made     amount_made                                                  *)
(*   tx_ins   the OutPoints the returned TxIns reference, in push order    *)
(*   ret      return_payment: None or Some(amount of the ReturnPayment)    *)
(*   status   "ok" or the panic that ended the call                        *)
(***************************************************************************)
\* the check of line 234 forgotten
FundsNotChecked(fund, amount_required) == FALSE

\* line 234: not enough funds to proceed with the payment
NotEnoughFunds(fund, amount_required) == fund.running_total < amount_required

\* the break of line 248 forgotten
NeverReachedTarget(amount_made, amount_required) == FALSE

\* line 247: the target is reached
ReachedTarget(amount_made, amount_required) == amount_made = amount_required

\* line 251 with >= for >
OvershotOrEqual(current_amount, amount_made, amount_required) ==
    current_amount + amount_made >= amount_required

\* line 251: this output overshoots the target
Overshot(current_amount, amount_made, amount_required) ==
    current_amount + amount_made > amount_required

\* lines 252, 261: the amount of the return payment, current_amount - diff
ReturnAmount(current_amount, amount_made, amount_required) ==
    current_amount - (amount_required - amount_made)

\* lines 313-314 forgotten: the address stays in the wallet
RemoveKeyOnly(w, tx_hash, address) == DeleteKey(w, tx_hash)

\* lines 308-315: delete the OutPoint's entry and its address from the wallet
RemoveFromWallet(w, tx_hash, address) ==
    SetAddressStores(DeleteKey(w, tx_hash), GetAddressStores(w) \ {address})

\* construct_tx_in_from_prev_out(tx_hash, remove_from_wallet) on loop state st.
\* get_transaction_store panics while it holds the lock, which poisons it;
\* the unwrap of the address lookup panics with no lock held.
ConstructTxIn(st, tx_hash, remove_from_wallet) ==
    IF st.status # "ok" THEN st
    ELSE IF ~HasTransactionStore(st.w, tx_hash)
    THEN [st EXCEPT !.status = "panic_tx_missing", !.w.poisoned = TRUE]
    ELSE LET address == GetTransactionStore(st.w, tx_hash)
         IN  IF address \notin GetAddressStores(st.w)
             THEN [st EXCEPT !.status = "panic_address_missing"]
             ELSE IF remove_from_wallet
             THEN [st EXCEPT !.w = RemoveFromWallet(st.w, tx_hash, address)]
             ELSE st

\* lines 250-264: the overshooting output funds the return payment
OvershotBranch(st, tx_hash, amount_required) ==
    LET current_amount == st.fund.transactions[tx_hash]
        s1 == [st EXCEPT !.fund.running_total = @ - current_amount,
                         !.made = amount_required]
        s2 == ConstructTxIn(s1, tx_hash, FALSE)
    IN  IF s2.status = "ok"
        THEN [s2 EXCEPT !.ret = Some(ReturnAmount(current_amount, st.made,
                                                   amount_required))]
        ELSE s2

\* lines 266-269: the output is added to the used stack
UsedBranch(st, tx_hash) ==
    LET current_amount == st.fund.transactions[tx_hash]
    IN  [st EXCEPT !.made = @ + current_amount,
                   !.fund.running_total = @ - current_amount]

\* lines 244-275: one iteration that did not break
LoopBody(st, tx_hash, amount_required) ==
    LET current_amount == st.fund.transactions[tx_hash]
        s1 == IF Overshot(current_amount, st.made, amount_required)
              THEN OvershotBranch(st, tx_hash, amount_required)
              ELSE UsedBranch(st, tx_hash)
        s2 == ConstructTxIn(s1, tx_hash, TRUE)
    IN  IF s2.status = "ok"
        THEN [s2 EXCEPT !.tx_ins = Append(@, tx_hash),
                        !.fund.transactions = MapRemove(@, tx_hash)]
        ELSE s2

RECURSIVE FetchLoop(_, _, _)
\* lines 243-276: for tx_hash in tx_hashes
FetchLoop(tx_hashes, st, amount_required) ==
    IF tx_hashes = <<>> \/ st.status # "ok" THEN st
    ELSE IF ReachedTarget(st.made, amount_required) THEN st
    ELSE FetchLoop(Tail(tx_hashes),
                   LoopBody(st, Head(tx_hashes), amount_required),
                   amount_required)

\* fetch_inputs_for_payment(amount_required) on wallet w: the final loop
\* state, its w being the wallet after the call
FetchInputsForPayment(w, amount_required) ==
    LET fund == GetFundStore(w)
        st0  == [w |-> w, fund |-> fund, made |-> 0, tx_ins |-> <<>>,
                 ret |-> None, status |-> "ok"]
    IN  IF w.poisoned THEN [st0 EXCEPT !.status = "panic_poisoned"]
        ELSE IF NotEnoughFunds(fund, amount_required)
        THEN [st0 EXCEPT !.status = "panic_not_enough_funds"]
        ELSE LET st == FetchLoop(SortedKeys(DOMAIN fund.transactions), st0,
                                 amount_required)
             IN  IF st.status = "ok"
                 THEN [st EXCEPT !.w = SetFundStore(st.w, st.fund)]
                 ELSE st

(***************************************************************************)
(* WalletSpec: the wallet used by one caller, one action per call.         *)
(***************************************************************************)
\* the wallet DB as the operators above take it
Wallet ==
    [fund |-> fund_store, addrs |-> address_store, txs |-> transaction_store,
     poisoned |-> poisoned]

\* the variables hold wallet w
WalletBecomes(w) ==
    /\ fund_store' = w.fund
    /\ address_store' = w.addrs
    /\ transaction_store' = w.txs
    /\ poisoned' = w.poisoned

EmptyWallet ==
    [fund |-> DefaultFundStore, addrs |-> {}, txs |-> EmptyMap, poisoned |-> FALSE]

NoCall ==
    [op |-> "none", amount |-> 0, status |-> "ok", tx_ins |-> <<>>,
     ret |-> None, change |-> None, pre |-> EmptyWallet]

\* WalletDb::new on an empty DB: no FUND_KEY, no ADDRESS_KEY, no entry
WalletInit ==
    /\ fund_store = DefaultFundStore
    /\ address_store = {}
    /\ transaction_store = EmptyMap
    /\ poisoned = FALSE
    /\ next_key = 1
    /\ last = NoCall

\* generate_payment_address: a fresh key pair, its address saved to the wallet.
\* The lock of a poisoned mutex panics in the blocking task: nothing is saved.
GeneratePaymentAddress ==
    /\ next_key <= MaxKeys
    /\ next_key' = next_key + 1
    /\ WalletBecomes(IF poisoned THEN Wallet
                     ELSE SaveAddressToWallet(Wallet, ConstructAddress(next_key)))
    /\ last' = NoCall
    /\ UNCHANGED <<computeVars, lockVars, binVars>>

\* save_transaction_to_wallet(tx_hash, address), address one generated before
SaveTransaction(tx_hash, address) ==
    /\ \E k \in 1..(next_key - 1) : address = ConstructAddress(k)
    /\ WalletBecomes(IF poisoned THEN Wallet
                     ELSE SaveTransactionToWallet(Wallet, tx_hash, address))
    /\ last' = NoCall
    /\ UNCHANGED <<next_key, computeVars, lockVars, binVars>>

\* save_payment_to_wallet(hash, amount)
SavePayment(hash, amount) ==
    /\ fund_store.running_total + amount <= MaxTotal
    /\ WalletBecomes(IF poisoned THEN Wallet
                     ELSE SavePaymentToWallet(Wallet, hash, amount))
    /\ last' = NoCall
    /\ UNCHANGED <<next_key, computeVars, lockVars, binVars>>

\* what a call of fetch_inputs_for_payment leaves in `last`
FetchRecord(op, amount_required, st, change) ==
    [op |-> op, amount |-> amount_required, status |-> st.status,
     tx_ins |-> st.tx_ins, ret |-> st.ret, change |-> change, pre |-> Wallet]

\* fetch_inputs_for_payment(amount_required), called on its own
FetchInputs(amount_required) ==
    \E st \in {FetchInputsForPayment(Wallet, amount_required)} :
        /\ WalletBecomes(st.w)
        /\ last' = FetchRecord("fetch", amount_required, st, None)
        /\ UNCHANGED <<next_key, computeVars, lockVars, binVars>>

\* Payment construction by the user node (spec 4.4, steps 1-4): the inputs
\* are fetched and, when there is a return payment, the change goes to a
\* freshly generated wallet address.
MakePayment(amount_required) ==
    \E st \in {FetchInputsForPayment(Wallet, amount_required)} :
        LET change == st.status = "ok" /\ st.ret # None
        IN  /\ change => next_key <= MaxKeys
            /\ WalletBecomes(IF change
                             THEN SaveAddressToWallet(st.w, ConstructAddress(next_key))
                             ELSE st.w)
            /\ next_key' = IF change THEN next_key + 1 ELSE next_key
            /\ last' = FetchRecord("payment", amount_required, st,
                                   IF change THEN Some(ConstructAddress(next_key))
                                   ELSE None)
            /\ UNCHANGED <<computeVars, lockVars, binVars>>

WalletNext ==
    \/ GeneratePaymentAddress
    \/ \E tx_hash \in OutPoints, address \in Keys : SaveTransaction(tx_hash, address)
    \/ \E hash \in OutPoints, amount \in Amounts : SavePayment(hash, amount)
    \/ \E amount_required \in 0..MaxRequired : FetchInputs(amount_required)
    \/ \E amount_required \in 0..MaxRequired : MakePayment(amount_required)

\* Result<Response>: Ok(Response {success, reason}) or Err
Ok(success, reason) == [result |-> "Ok", success |-> success, reason |-> reason]
Err == [result |-> "Err", success |-> FALSE, reason |-> "error"]
NoResponse == [result |-> "none", success |-> FALSE, reason |-> "none"]

\* the compute node, not started
ComputeOff ==
    /\ compute_pc = "ended" /\ response = NoResponse /\ partition_list = <<>>
    /\ storage_connected = FALSE /\ current_block = FALSE /\ round = 1
    /\ challenging = FALSE
    /\ handled = [reason |-> "none", list |-> <<>>] /\ sent = <<>>
    /\ block_sent = [r \in Rounds |-> 0]
    /\ block_acked = [r \in Rounds |-> FALSE]
    /\ block_found = [r \in Rounds |-> FALSE]

\* a task that makes no call
IdleTask ==
    [pc |-> "idle", phase |-> "none", calls |-> 0, amount |-> 0, key |-> 0,
     val |-> 0, fund |-> DefaultFundStore, keys |-> <<>>, made |-> 0,
     pending |-> 0, tx_ins |-> <<>>, ret |-> None, addrs |-> {}, addr |-> 0]

\* no task uses the wallet handle
LockOff ==
    /\ mutex = "free"
    /\ tasks = [t \in Tasks |-> IdleTask]

\* fn main of the storage binary, not entered
StorageOff ==
    [pc |-> "off", main_loop |-> "none", raft_loop |-> "none",
     conn_loop |-> "none", disconn_loop |-> "none", connected |-> {},
     response |-> NoResponse, stored |-> 0, acked |-> 0, errored |-> FALSE,
     log |-> <<>>, index |-> None, base |-> 0, db_mode |-> None]

\* fn main of the user binary, not entered
UserOff ==
    [pc |-> "off", main_loop |-> "none", conn_loop |-> "none",
     disconn_loop |-> "none", connected |-> {}, pay |-> FALSE,
     arrived |-> <<>>, handled |-> <<>>, exit_at |-> 0, log |-> <<>>,
     index |-> None, base |-> 0, db_mode |-> None, warp |-> "none"]

\* fn main of the upgrade binary, not entered
UpgradeOff ==
    [pc |-> "off", args |-> <<>>, settings |-> <<>>, db_modes |-> <<>>, raft_len |-> 0,
     next |-> 0, opened |-> {}, upgraded |-> {}, failed |-> None, output |-> <<>>,
     result |-> None, runs |-> <<>>]

\* the other binaries, not started
\* construct_address not called
AddrOff ==
    [pc |-> "off", pub_key |-> <<>>, net |-> 0, bytes |-> <<>>, state |-> <<>>,
     round |-> 0, digest |-> 0, result |-> None]

\* fn main of the compute binary, not entered
MainOff == [pc |-> "off", spins |-> 0, task_over |-> FALSE]

BinsOff ==
    /\ storage = StorageOff /\ user = UserOff /\ upgrade = UpgradeOff
    /\ addr = AddrOff /\ compute_main = MainOff

WalletStart == WalletInit /\ ComputeOff /\ LockOff /\ BinsOff

WalletSpec == WalletStart /\ [][WalletNext]_vars

(***************************************************************************)
(* Properties of the wallet (WalletSpec).                                  *)
(***************************************************************************)
\* the last call was fetch_inputs_for_payment (on its own or in a payment)
Fetched == last.op \in {"fetch", "payment"}

\* ... and it returned
FetchReturned == Fetched /\ last.status = "ok"

\* the FundStore invariant on a fund store
TotalIsSum(fund) == fund.running_total = SumValues(fund.transactions)

\* the OutPoints of fund in ascending order
PreKeys == SortedKeys(DOMAIN last.pre.fund.transactions)

\* the sum of the first n outputs of the FundStore the call found
PrefixSum(n) == SumSeq(last.pre.fund.transactions, SubSeq(PreKeys, 1, n))

\* the sum of the outputs the call consumed
ConsumedSum == SumSeq(last.pre.fund.transactions, last.tx_ins)

\* C1: from an empty wallet, after any sequence of save_payment_to_wallet and
\* fetch_inputs_for_payment calls the persisted FundStore has running_total
\* equal to the sum of the amounts in transactions, also after a save for an
\* OutPoint that is already in transactions.
C1_RunningTotalIsSum == TotalIsSum(fund_store)

\* C2: on a wallet whose running_total is the sum of its outputs and is
\* >= amount_required, the TxIns fetch_inputs_for_payment returns reference,
\* in ascending OutPoint order, exactly the shortest prefix of the outputs
\* whose sum is >= amount_required (none for 0), and exactly those OutPoints
\* are removed from FundStore.transactions, every other entry unchanged.
C2_ShortestPrefixConsumed ==
    (FetchReturned /\ TotalIsSum(last.pre.fund)) =>
        LET n == Len(last.tx_ins)
        IN  /\ n <= Len(PreKeys)
            /\ last.tx_ins = SubSeq(PreKeys, 1, n)
            /\ PrefixSum(n) >= last.amount
            /\ \A j \in 0..(n - 1) : PrefixSum(j) < last.amount
            /\ last.amount = 0 => n = 0
            /\ fund_store.transactions =
                   [x \in DOMAIN last.pre.fund.transactions \ Range(last.tx_ins)
                       |-> last.pre.fund.transactions[x]]

C2_Witness ==
    /\ last.op = "fetch" /\ last.status = "ok" /\ TotalIsSum(last.pre.fund)
    /\ Len(PreKeys) = 2 /\ Len(last.tx_ins) = 1
    /\ last.pre.fund.transactions[PreKeys[1]] = 2
    /\ last.amount = 2

\* C3: fetch_inputs_for_payment returns a return payment if and only if the
\* sum of the consumed outputs strictly exceeds amount_required, and its
\* amount is then that sum minus amount_required.
C3_ReturnPaymentIffOvershoot ==
    FetchReturned =>
        /\ (last.ret # None) <=> (ConsumedSum > last.amount)
        /\ last.ret # None => last.ret = Some(ConsumedSum - last.amount)

C3_Witness ==
    /\ last.op = "fetch" /\ last.status = "ok"
    /\ Len(last.tx_ins) = 2 /\ last.amount = 2 /\ last.ret = Some(1)

\* C4: with running_total < amount_required the call fails for lack of
\* funds, returns no inputs, and leaves the FundStore, the AddressStore and
\* the TransactionStore entries as they were.
C4_InsufficientFundsLeavesWallet ==
    (Fetched /\ ~last.pre.poisoned /\ last.pre.fund.running_total < last.amount) =>
        /\ last.status = "panic_not_enough_funds"
        /\ last.tx_ins = <<>> /\ last.ret = None /\ last.change = None
        /\ Wallet = last.pre

C4_Witness ==
    /\ last.op = "fetch" /\ last.status = "panic_not_enough_funds"
    /\ last.amount = 2 /\ fund_store.running_total = 1
    /\ DOMAIN fund_store.transactions # {}
    /\ DOMAIN fund_store.transactions \subseteq DOMAIN transaction_store

\* C5: after a successful fetch_inputs_for_payment every consumed OutPoint
\* has its TransactionStore entry deleted and its owning address removed
\* from the AddressStore; the overshooting output is consumed and removed
\* like the others.
C5_ConsumedRemoved ==
    FetchReturned =>
        /\ \A i \in DOMAIN last.tx_ins :
              /\ last.tx_ins[i] \notin DOMAIN transaction_store
              /\ last.tx_ins[i] \notin DOMAIN fund_store.transactions
              /\ last.tx_ins[i] \in DOMAIN last.pre.txs
              /\ last.pre.txs[last.tx_ins[i]] \notin address_store
        /\ last.ret # None =>
              /\ last.tx_ins # <<>>
              /\ PrefixSum(Len(last.tx_ins) - 1) < last.amount

C5_Witness ==
    /\ last.op = "fetch" /\ last.status = "ok"
    /\ Len(last.tx_ins) = 2 /\ last.ret # None
    /\ Cardinality(last.pre.addrs) = 2

ReferentialIntegrity(w) ==
    \A o \in DOMAIN w.fund.transactions :
        HasTransactionStore(w, o) /\ GetTransactionStore(w, o) \in w.addrs

\* C30: referential integrity of the wallet is preserved by payments and
\* suffices for them to succeed: if every OutPoint in FundStore.transactions
\* has a TransactionStore entry whose address is in the AddressStore and
\* running_total >= amount_required, fetch_inputs_for_payment completes
\* without failure and every OutPoint that remains still has such an entry,
\* also when several outputs are owned by the same wallet address.
C30_IntegritySufficesForPayment ==
    (/\ last.op \in {"fetch", "payment"}
     /\ ~last.pre.poisoned
     /\ ReferentialIntegrity(last.pre)
     /\ last.pre.fund.running_total >= last.amount) =>
        (last.status = "ok" /\ ReferentialIntegrity(Wallet))

(***************************************************************************)
(* ComputeSpec: the request task of the compute binary (bin/compute.rs).   *)
(* The task polls node.handle_next_event() and matches the Response; the   *)
(* ComputeNode behind it is not part of the binary and is modelled from    *)
(* the specification (sections 4.2 and 6).                                 *)
(***************************************************************************)
\* an async fan-out of one message kind over a list of peers
Flood(kind, peers) == [kind |-> kind, to |-> peers]

\* flood_rand_num_to_requesters, flood_list_to_partition,
\* flood_block_to_partition, flood_block_found_notification: each fans out
\* over the current partition
FloodRandNumToRequesters(list) == Flood("RandNum", list)
FloodListToPartition(list) == Flood("PartitionList", list)
FloodBlockToPartition(list) == Flood("BlockChallenge", list)
FloodBlockFoundNotification(list) == Flood("BlockFound", list)

\* send_block_to_storage: AppendBlock to the storage node
SendBlockToStorage == Flood("AppendBlock", <<"storage">>)

\* lines 110-114 and ComputeNode::new: the state when the loop starts
ComputeInit ==
    /\ compute_pc = "poll"
    /\ response = NoResponse
    /\ partition_list = <<>>
    /\ storage_connected \in BOOLEAN
    /\ current_block \in BOOLEAN
    /\ round = 1
    /\ challenging = FALSE
    /\ handled = [reason |-> "none", list |-> <<>>]
    /\ sent = <<>>
    /\ block_sent = [r \in Rounds |-> 0]
    /\ block_acked = [r \in Rounds |-> FALSE]
    /\ block_found = [r \in Rounds |-> FALSE]

\* handle_next_event is also polled while an arm of the match runs
PollsWhileMatching(pc) == pc \in {"poll", "match"}

\* line 117 (storage.rs line 94): handle_next_event is awaited at the head
\* of the while loop only, after the arm taken for the response before has
\* run to its end
Polls(pc) == pc = "poll"

\* handle_next_event returned r: the task goes on to match it
Returns(r) ==
    /\ Polls(compute_pc)
    /\ compute_pc' = "match"
    /\ response' = r

\* PartitionRequest {miner_endpoint}: the endpoint is appended to the list
ReceivePartitionRequest(m) ==
    /\ Len(partition_list) < PARTITION_SIZE
    /\ partition_list' = Append(partition_list, m)
    /\ Returns(IF Len(partition_list) + 1 = PARTITION_SIZE
               THEN Ok(TRUE, "Partition list is full")
               ELSE Ok(TRUE, "Partition request received successfully"))
    /\ challenging' = (challenging \/ Len(partition_list) + 1 = PARTITION_SIZE)
    /\ UNCHANGED <<storage_connected, current_block, round, handled, sent,
                   block_sent, block_acked, block_found, walletVars, lockVars, binVars>>

\* a BlockSolution of miner m is accepted: the round is in Challenging and m
\* is a member of the current partition
ValidPoW(m) == challenging /\ m \in Range(partition_list)

\* BlockSolution accepted (the first of the round: its handler ends the round)
ReceivePoW(m) ==
    /\ round <= MaxRounds
    /\ ValidPoW(m)
    /\ Returns(Ok(TRUE, "Received PoW successfully"))
    /\ UNCHANGED <<partition_list, storage_connected, current_block, round, challenging,
                   handled, sent, block_sent, block_acked, block_found, walletVars, lockVars, binVars>>

\* any other BlockSolution: discarded
ReceiveInvalidPoW(m) ==
    /\ ~ValidPoW(m)
    /\ Returns(Ok(FALSE, "PoW rejected"))
    /\ UNCHANGED <<partition_list, storage_connected, current_block, round, challenging,
                   handled, sent, block_sent, block_acked, block_found, walletVars, lockVars, binVars>>

\* SendTransactions {txs}, all admitted: the node has a candidate block
ReceiveTransactions ==
    /\ current_block' = TRUE
    /\ Returns(Ok(TRUE, "All transactions successfully added to tx pool"))
    /\ UNCHANGED <<partition_list, storage_connected, round, challenging, handled, sent,
                   block_sent, block_acked, block_found, walletVars, lockVars, binVars>>

\* BlockStored {block_hash}: Storage acknowledges a block it was sent
ReceiveBlockStored(r) ==
    /\ block_sent[r] > 0 /\ ~block_acked[r]
    /\ block_acked' = [block_acked EXCEPT ![r] = TRUE]
    /\ Returns(Ok(TRUE, "Block stored"))
    /\ UNCHANGED <<partition_list, storage_connected, current_block, round, challenging,
                   handled, sent, block_sent, block_found, walletVars, lockVars, binVars>>

\* handle_next_event yields an Err
ReceiveError ==
    /\ Returns(Err)
    /\ UNCHANGED <<partition_list, storage_connected, current_block, round, challenging,
                   handled, sent, block_sent, block_acked, block_found, walletVars, lockVars, binVars>>

\* handle_next_event yields None: the while loop ends (line 117)
EventStreamEnds ==
    /\ compute_pc = "poll"
    /\ compute_pc' = "ended"
    /\ UNCHANGED <<response, partition_list, storage_connected, current_block,
                   round, challenging, handled, sent, block_sent, block_acked, block_found,
                   walletVars, lockVars, binVars>>

\* a match arm is taken for the response, and the loop polls again
Matches(success, reason) ==
    /\ compute_pc = "match"
    /\ response.result = "Ok"
    /\ response.success = success
    /\ response.reason = reason

Handled ==
    /\ compute_pc' = "poll"
    /\ response' = NoResponse
    /\ handled' = [reason |-> response.reason, list |-> partition_list]

\* lines 121-126
OnPartitionRequest ==
    /\ Matches(TRUE, "Partition request received successfully")
    /\ sent' = <<FloodRandNumToRequesters(partition_list)>>
    /\ Handled
    /\ UNCHANGED <<partition_list, storage_connected, current_block, round, challenging,
                   block_sent, block_acked, block_found, walletVars, lockVars, binVars>>

\* line 132: node.partition_list = Vec::new(), and the list line 134 then finds
ListAfterClear(list) == <<>>

\* lines 127-135
OnPartitionListFull ==
    /\ Matches(TRUE, "Partition list is full")
    /\ sent' = <<FloodListToPartition(partition_list),
                 FloodBlockToPartition(ListAfterClear(partition_list))>>
    /\ partition_list' = <<>>
    /\ Handled
    /\ UNCHANGED <<storage_connected, current_block, round, challenging, block_sent,
                   block_acked, block_found, walletVars, lockVars, binVars>>

\* line 140: the block is sent to Storage
SendsBlock == storage_connected /\ current_block

\* the arm calls send_block_to_storage again after its first call
BlockSendsRepeated(sends) == IF sends THEN 2 ELSE 0

\* lines 140-144: the calls of send_block_to_storage the arm makes, one
\* behind the if and none in a loop
BlockSends(sends) == IF sends THEN 1 ELSE 0

\* lines 136-146, send_block_to_storage returning Ok where it is called
OnPoWReceived ==
    /\ Matches(TRUE, "Received PoW successfully")
    /\ sent' = (IF SendsBlock THEN <<SendBlockToStorage>> ELSE <<>>)
                  \o <<FloodBlockFoundNotification(partition_list)>>
    /\ block_sent' = [block_sent EXCEPT ![round] = @ + BlockSends(SendsBlock)]
    /\ block_found' = [block_found EXCEPT ![round] = TRUE]
    /\ round' = round + 1
    /\ challenging' = FALSE
    /\ Handled
    /\ UNCHANGED <<partition_list, storage_connected, current_block, block_acked,
                   walletVars, lockVars, binVars>>

\* lines 140-144, send_block_to_storage returning Err: the unwrap panics
OnPoWSendFails ==
    /\ Matches(TRUE, "Received PoW successfully")
    /\ SendsBlock
    /\ compute_pc' = "panicked"
    /\ block_sent' = [block_sent EXCEPT ![round] = @ + BlockSends(SendsBlock)]
    /\ UNCHANGED <<response, partition_list, storage_connected, current_block,
                   round, challenging, handled, sent, block_acked, block_found,
                   walletVars, lockVars, binVars>>

\* lines 147-153
OnTransactionsAdded ==
    /\ Matches(TRUE, "All transactions successfully added to tx pool")
    /\ sent' = <<>>
    /\ Handled
    /\ UNCHANGED <<partition_list, storage_connected, current_block, round, challenging,
                   block_sent, block_acked, block_found, walletVars, lockVars, binVars>>

\* lines 154-159: any other success
OnUnhandledSuccess ==
    /\ Matches(TRUE, "Block stored")
    /\ sent' = <<>>
    /\ Handled
    /\ UNCHANGED <<partition_list, storage_connected, current_block, round, challenging,
                   block_sent, block_acked, block_found, walletVars, lockVars, binVars>>

\* lines 160-165: any failure
OnFailure ==
    /\ Matches(FALSE, "PoW rejected")
    /\ sent' = <<>>
    /\ Handled
    /\ UNCHANGED <<partition_list, storage_connected, current_block, round, challenging,
                   block_sent, block_acked, block_found, walletVars, lockVars, binVars>>

\* lines 166-168: panic!("ERROR HANDLING RESPONSE")
OnError ==
    /\ compute_pc = "match"
    /\ response.result = "Err"
    /\ compute_pc' = "panicked"
    /\ UNCHANGED <<response, partition_list, storage_connected, current_block,
                   round, challenging, handled, sent, block_sent, block_acked, block_found,
                   walletVars, lockVars, binVars>>

ComputeNext ==
    \/ \E m \in Miners : ReceivePartitionRequest(m)
    \/ \E m \in Miners : ReceivePoW(m)
    \/ \E m \in Miners : ReceiveInvalidPoW(m)
    \/ ReceiveTransactions
    \/ \E r \in Rounds : ReceiveBlockStored(r)
    \/ ReceiveError
    \/ EventStreamEnds
    \/ OnPartitionRequest
    \/ OnPartitionListFull
    \/ OnPoWReceived
    \/ OnPoWSendFails
    \/ OnTransactionsAdded
    \/ OnUnhandledSuccess
    \/ OnFailure
    \/ OnError

\* the compute binary started; the wallet is not used by it
ComputeStart == WalletInit /\ ComputeInit /\ LockOff /\ BinsOff

ComputeSpec == ComputeStart /\ [][ComputeNext]_vars

(***************************************************************************)
(* Properties of the compute node (ComputeSpec).                           *)
(***************************************************************************)
\* the number of messages a flood delivers to peer m
Delivered(flood, m) == Cardinality({i \in DOMAIN flood.to : flood.to[i] = m})

\* the endpoints of list are pairwise distinct
Distinct(list) == Cardinality(Range(list)) = Len(list)

\* C8: when the partition list becomes full with PARTITION_SIZE distinct
\* miners, the complete list is flooded exactly once to each of them, then
\* the block challenge is flooded exactly once to each of the same miners,
\* and partition_list is empty before a further partition request is
\* processed.
C8_FullListAndChallengeFlooded ==
    (compute_pc = "poll" /\ handled.reason = "Partition list is full"
        /\ Distinct(handled.list)) =>
        /\ Len(handled.list) = PARTITION_SIZE
        /\ Len(sent) = 2
        /\ sent[1].kind = "PartitionList" /\ sent[2].kind = "BlockChallenge"
        /\ \A m \in Miners :
              LET n == IF m \in Range(handled.list) THEN 1 ELSE 0
              IN  Delivered(sent[1], m) = n /\ Delivered(sent[2], m) = n
        /\ partition_list = <<>>

\* the node is at the start of a block round
RoundStart ==
    /\ compute_pc = "poll"
    /\ handled.reason \in {"none", "Received PoW successfully"}

\* C9: the partition list holds at most PARTITION_SIZE distinct miner
\* endpoints in every reachable state, and it is empty at the start of every
\* block round.
C9_PartitionListBoundedAndCleared ==
    /\ Cardinality(Range(partition_list)) <= PARTITION_SIZE
    /\ RoundStart => partition_list = <<>>

\* C10: the block-found notification of a round is flooded only after the
\* block of that round has been sent to Storage and acknowledged by it.
C10_NotifiedOnlyAfterAck ==
    \A r \in Rounds : block_found[r] => (block_sent[r] > 0 /\ block_acked[r])

C17_FailedSendRetried ==
    (compute_pc = "panicked" /\ response.result = "Ok") => block_sent[round] > 1

\* C28: on every "Received PoW successfully" response the compute binary
\* calls send_block_to_storage if and only if the storage connection
\* succeeded at startup and the node has a current block, and in every case
\* afterwards floods the block-found notification; it floods no random
\* number in response to a received PoW.
C28_PoWSendsBlockThenFloodsFound ==
    [][(/\ compute_pc = "match"
        /\ response = Ok(TRUE, "Received PoW successfully")
        /\ compute_pc' # "match") =>
            /\ block_sent'[round] = block_sent[round]
                    + (IF storage_connected /\ current_block THEN 1 ELSE 0)
            /\ block_found'[round]
            /\ compute_pc' = "poll" =>
                    /\ sent' # <<>>
                    /\ sent'[Len(sent')] = FloodBlockFoundNotification(partition_list)
                    /\ \A i \in DOMAIN sent' : sent'[i].kind # "RandNum"]_vars

(***************************************************************************)
(* MainSpec: fn main of the compute binary after it spawned the request    *)
(* task (bin/compute.rs lines 65-174), and the request task beside it.     *)
(***************************************************************************)
\* the variables fn main of the compute binary leaves alone
mainOthers == <<walletVars, computeVars, lockVars, storage, user, upgrade, addr>>

\* lines 65-172: tokio::spawn returned; its JoinHandle is dropped, and main
\* enters its final loop
MainInit == compute_main = [MainOff EXCEPT !.pc = "loop"]

\* the request task is over: its while loop ended, or it panicked
TaskOver(pc) == pc \in {"ended", "panicked"}

\* main leaves its final loop when the request task is over
BreaksWhenTaskOver(pc) == TaskOver(pc)

\* line 174: loop {} has no break and awaits nothing
LoopBreaks(pc) == FALSE

\* line 174: one iteration of the final loop
MainLoop ==
    /\ compute_main.pc = "loop"
    /\ compute_main.spins < MaxSpins
    /\ compute_main' =
          [pc |-> IF LoopBreaks(compute_pc) THEN "returned" ELSE "loop",
           spins |-> compute_main.spins + 1,
           task_over |-> TaskOver(compute_pc)]
    /\ UNCHANGED mainOthers

MainNext == ComputeNext \/ MainLoop

\* the compute binary started, fn main and the request task
MainStart ==
    /\ WalletInit /\ ComputeInit /\ LockOff
    /\ storage = StorageOff /\ user = UserOff /\ upgrade = UpgradeOff
    /\ addr = AddrOff /\ MainInit

MainSpec == MainStart /\ [][MainNext]_vars

\* C32: the compute process never terminates on its own: whether its event
\* loop ends because handle_next_event returns None or because the request
\* task panics on an Err response, main keeps spinning in its final loop
\* and never returns an exit status.
C32_ComputeNeverReturns ==
    /\ compute_main.pc = "loop"
    /\ compute_main.task_over => TaskOver(compute_pc)

\* main made an iteration of its final loop after the request task had
\* panicked on an Err response
C32_Witness ==
    /\ compute_pc = "panicked" /\ response = Err
    /\ compute_main.pc = "loop" /\ compute_main.task_over
    /\ compute_main.spins = MaxSpins

(***************************************************************************)
(* LockSpec: the main loop and the HTTP API share the wallet DB handle     *)
(* (Arc<Mutex<SimpleDb>>). A WalletDb call is a sequence of DB accesses,   *)
(* each made by the step pc names in three moves: the task locks the       *)
(* mutex, accesses the DB, and drops the guard.                            *)
(***************************************************************************)
\* the accesses of construct_tx_in_from_prev_out(_, false) and (_, true)
ConstructSteps ==
    {"c1_get_address_stores", "c1_get_transaction_store",
     "c2_get_address_stores", "c2_get_transaction_store",
     "c2_delete_key", "c2_set_address_stores"}

\* every step that reads or writes the DB
AccessSteps ==
    {"get_fund_store", "set_fund_store", "save_payment", "save_transaction",
     "save_address"} \cup ConstructSteps

\* get_fund_store reads the DB without the lock
AllButGetFundStore(step) == step # "get_fund_store"

\* the step locks the mutex for its access: self.db.lock().unwrap() in every
\* accessor (lines 323-349), db.lock().unwrap() in every save_* closure
TakesLock(step) == step \in AccessSteps

\* with_seed: the wallet seeded with outputs 1..n, each paid to an address
\* of its own
SeededWallet(amounts) ==
    [fund |-> [running_total |-> SumValues(amounts), transactions |-> amounts],
     addrs |-> {ConstructAddress(k) : k \in DOMAIN amounts},
     txs |-> [o \in DOMAIN amounts |-> ConstructAddress(o)],
     poisoned |-> FALSE]

LockInit ==
    /\ \E n \in 0..Min({MaxSeeds, MaxOutPoints, MaxKeys}) :
          \E amounts \in [1..n -> 1..MaxAmount] :
              /\ fund_store = SeededWallet(amounts).fund
              /\ address_store = SeededWallet(amounts).addrs
              /\ transaction_store = SeededWallet(amounts).txs
              /\ next_key = n + 1
    /\ poisoned = FALSE
    /\ last = NoCall
    /\ mutex = "free"
    /\ tasks = [t \in Tasks |-> IdleTask]

\* the calls the two tasks have started
CallsMade == tasks["main"].calls + tasks["api"].calls

\* task t starts a call: its first access is step, its arguments are set
Calls(t, step, amount, key, val) ==
    /\ tasks[t].pc = "idle"
    /\ CallsMade < MaxCalls
    /\ tasks' = [tasks EXCEPT ![t] =
                    [IdleTask EXCEPT !.pc = step, !.phase = "want",
                                     !.calls = tasks[t].calls + 1,
                                     !.amount = amount, !.key = key, !.val = val]]
    /\ UNCHANGED <<fund_store, address_store, transaction_store, poisoned, last,
                   mutex, computeVars, binVars>>

\* fetch_inputs_for_payment(amount_required)
CallFetchInputs(t, amount_required) ==
    /\ Calls(t, "get_fund_store", amount_required, 0, 0)
    /\ UNCHANGED next_key

\* save_payment_to_wallet(hash, amount)
CallSavePayment(t, hash, amount) ==
    /\ fund_store.running_total + amount <= MaxTotal
    /\ Calls(t, "save_payment", 0, hash, amount)
    /\ UNCHANGED next_key

\* save_transaction_to_wallet(tx_hash, address)
CallSaveTransaction(t, tx_hash, address) ==
    /\ \E k \in 1..(next_key - 1) : address = ConstructAddress(k)
    /\ Calls(t, "save_transaction", 0, tx_hash, address)
    /\ UNCHANGED next_key

\* generate_payment_address: the key pair is generated, then the address saved
CallGenerateAddress(t) ==
    /\ next_key <= MaxKeys
    /\ next_key' = next_key + 1
    /\ Calls(t, "save_address", 0, 0, ConstructAddress(next_key))

\* the task's call ended in a panic; its locals are dropped
Panicked(r) == [IdleTask EXCEPT !.pc = "panicked", !.calls = r.calls]

\* db.lock().unwrap(): the task waits for the mutex and holds it; on a
\* poisoned mutex the unwrap panics and the guard is dropped at once
Lock(t) ==
    /\ tasks[t].phase = "want"
    /\ TakesLock(tasks[t].pc) => mutex = "free"
    /\ IF poisoned /\ TakesLock(tasks[t].pc)
       THEN /\ tasks' = [tasks EXCEPT ![t] = Panicked(@)]
            /\ UNCHANGED mutex
       ELSE /\ tasks' = [tasks EXCEPT ![t].phase = "held"]
            /\ mutex' = IF TakesLock(tasks[t].pc) THEN t ELSE mutex
    /\ UNCHANGED <<walletVars, computeVars, binVars>>

\* the locals of task r after its access to wallet w
AccessLocals(r, w) ==
    CASE r.pc = "get_fund_store" -> [r EXCEPT !.fund = GetFundStore(w)]
      [] r.pc \in {"c1_get_address_stores", "c2_get_address_stores"} ->
            [r EXCEPT !.addrs = GetAddressStores(w)]
      [] r.pc \in {"c1_get_transaction_store", "c2_get_transaction_store"} ->
            [r EXCEPT !.addr = GetTransactionStore(w, Head(r.keys))]
      [] OTHER -> r

\* the wallet after the access of task r
AccessWallet(r, w) ==
    CASE r.pc = "set_fund_store" -> SetFundStore(w, r.fund)
      [] r.pc = "c2_delete_key" -> DeleteKey(w, Head(r.keys))
      [] r.pc = "c2_set_address_stores" -> SetAddressStores(w, r.addrs \ {r.addr})
      [] r.pc = "save_payment" -> SavePaymentToWallet(w, r.key, r.val)
      [] r.pc = "save_transaction" -> SaveTransactionToWallet(w, r.key, r.val)
      [] r.pc = "save_address" -> SaveAddressToWallet(w, r.val)
      [] OTHER -> w

\* get_transaction_store finds no entry: it panics under the lock
AccessPanics(r, w) ==
    /\ r.pc \in {"c1_get_transaction_store", "c2_get_transaction_store"}
    /\ ~HasTransactionStore(w, Head(r.keys))

\* the access itself, made at the step the task is at
Access(t) ==
    /\ tasks[t].phase = "held"
    /\ IF AccessPanics(tasks[t], Wallet)
       THEN /\ tasks' = [tasks EXCEPT ![t] = Panicked(@)]
            /\ poisoned' = (poisoned \/ mutex = t)
            /\ mutex' = IF mutex = t THEN "free" ELSE mutex
            /\ UNCHANGED <<fund_store, address_store, transaction_store>>
       ELSE /\ tasks' = [tasks EXCEPT ![t] =
                            [AccessLocals(@, Wallet) EXCEPT !.phase = "accessed"]]
            /\ WalletBecomes(AccessWallet(tasks[t], Wallet))
            /\ UNCHANGED mutex
    /\ UNCHANGED <<next_key, last, computeVars, binVars>>

\* the call returned; its locals are dropped
Returned(r) == [IdleTask EXCEPT !.calls = r.calls]

\* lines 243-251 and 266-269: the loop goes on to its next OutPoint, or ends
LoopHead(r) ==
    IF r.keys = <<>> \/ ReachedTarget(r.made, r.amount)
    THEN [r EXCEPT !.pc = "set_fund_store", !.phase = "want"]
    ELSE LET current_amount == r.fund.transactions[Head(r.keys)]
         IN  IF Overshot(current_amount, r.made, r.amount)
             THEN [r EXCEPT !.pending = ReturnAmount(current_amount, r.made, r.amount),
                            !.fund.running_total = @ - current_amount,
                            !.made = r.amount,
                            !.pc = "c1_get_address_stores", !.phase = "want"]
             ELSE [r EXCEPT !.made = @ + current_amount,
                            !.fund.running_total = @ - current_amount,
                            !.pc = "c2_get_address_stores", !.phase = "want"]

\* what the task does between the access it made and its next one
Continue(r) ==
    CASE r.pc = "get_fund_store" ->
            IF NotEnoughFunds(r.fund, r.amount) THEN Panicked(r)
            ELSE LoopHead([r EXCEPT !.keys = SortedKeys(DOMAIN r.fund.transactions)])
      [] r.pc = "c1_get_address_stores" ->
            [r EXCEPT !.pc = "c1_get_transaction_store", !.phase = "want"]
      [] r.pc = "c1_get_transaction_store" ->
            IF r.addr \notin r.addrs THEN Panicked(r)
            ELSE [r EXCEPT !.ret = Some(r.pending),
                           !.pc = "c2_get_address_stores", !.phase = "want"]
      [] r.pc = "c2_get_address_stores" ->
            [r EXCEPT !.pc = "c2_get_transaction_store", !.phase = "want"]
      [] r.pc = "c2_get_transaction_store" ->
            IF r.addr \notin r.addrs THEN Panicked(r)
            ELSE [r EXCEPT !.pc = "c2_delete_key", !.phase = "want"]
      [] r.pc = "c2_delete_key" ->
            [r EXCEPT !.pc = "c2_set_address_stores", !.phase = "want"]
      [] r.pc = "c2_set_address_stores" ->
            LoopHead([r EXCEPT !.tx_ins = Append(@, Head(r.keys)),
                               !.fund.transactions = MapRemove(@, Head(r.keys)),
                               !.keys = Tail(@)])
      [] OTHER -> Returned(r)

\* the guard is dropped, and the call goes on
Unlock(t) ==
    /\ tasks[t].phase = "accessed"
    /\ mutex' = IF mutex = t THEN "free" ELSE mutex
    /\ tasks' = [tasks EXCEPT ![t] = Continue(@)]
    /\ UNCHANGED <<walletVars, computeVars, binVars>>

LockNext ==
    \/ \E t \in Tasks, amount_required \in 0..MaxRequired :
          CallFetchInputs(t, amount_required)
    \/ \E t \in Tasks, hash \in OutPoints, amount \in Amounts :
          CallSavePayment(t, hash, amount)
    \/ \E t \in Tasks, tx_hash \in OutPoints, address \in Keys :
          CallSaveTransaction(t, tx_hash, address)
    \/ \E t \in Tasks : CallGenerateAddress(t)
    \/ \E t \in Tasks : Lock(t)
    \/ \E t \in Tasks : Access(t)
    \/ \E t \in Tasks : Unlock(t)

\* the seeded wallet, the compute node not started
LockStart == LockInit /\ ComputeOff /\ BinsOff

LockSpec == LockStart /\ [][LockNext]_vars

(***************************************************************************)
(* Properties of the shared handle (LockSpec).                             *)
(***************************************************************************)
\* task t is reading or writing the DB
Accessing(t) == tasks[t].phase \in {"held", "accessed"}

\* C7: every read and every write of the wallet DB by a WalletDb operation
\* is made while the one mutex is held by the task that makes it, so no two
\* tasks access the DB at the same time.
C7_AccessUnderMutex ==
    /\ \A t \in Tasks : Accessing(t) => (tasks[t].pc \in AccessSteps /\ mutex = t)
    /\ \A t1, t2 \in Tasks : (Accessing(t1) /\ Accessing(t2)) => t1 = t2

C7_Witness ==
    /\ tasks["main"].pc = "c2_delete_key" /\ tasks["main"].phase = "held"
    /\ tasks["api"].pc = "save_payment" /\ tasks["api"].phase = "want"
    /\ mutex = "main"

\* C29: a payment saved by save_payment_to_wallet is not lost when it runs
\* concurrently with fetch_inputs_for_payment on the shared wallet DB: when
\* the fetch persists its FundStore, every OutPoint the DB held that the
\* fetch did not consume is still there with its amount, and running_total
\* still equals the sum of the stored amounts.
C29_SavedPaymentNotLost ==
    [][\A t \in Tasks :
        (/\ tasks[t].pc = "set_fund_store"
         /\ tasks[t].phase = "held"
         /\ tasks'[t].phase = "accessed") =>
            /\ \A o \in DOMAIN fund_store.transactions \ Range(tasks[t].tx_ins) :
                    /\ o \in DOMAIN fund_store'.transactions
                    /\ fund_store'.transactions[o] = fund_store.transactions[o]
            /\ TotalIsSum(fund_store) => TotalIsSum(fund_store')]_vars

(***************************************************************************)
(* StorageSpec: fn main of the storage binary (bin/storage.rs) and the     *)
(* four tasks it spawns. The StorageNode, the Raft loop and the control    *)
(* loops behind them are not part of the binary and are modelled from the  *)
(* specification (sections 4.1, 4.3 and 6).                                *)
(***************************************************************************)
\* the variables the storage binary leaves alone
storageOthers ==
    <<walletVars, computeVars, lockVars, user, upgrade, addr, compute_main>>

\* the index of <type>_db_mode = Test(index) in a settings file
TestBases == {0, 1, 1000}

\* --index on the command line: absent, or the decimal text of a node index
IndexArgs == {None} \cup {Some(ToString(i)) : i \in 0..(MaxNodes - 1)}

\* str::parse::<usize>, and the read of a settings value as usize
ParseUsize(text) == CHOOSE n \in 0..(1000 + MaxNodes) : ToString(n) = text

\* lines 13-29: the command line is read; the settings file sets
\* storage_db_mode = Test(base)
StorageInit ==
    \E index \in IndexArgs, base \in TestBases :
        storage = [StorageOff EXCEPT !.pc = "config", !.index = index, !.base = base]

\* lines 46-53: with --index the value of Test becomes the text of the
\* index; line 55 reads the settings into the config
StorageDbMode(base, index) ==
    IF index = None THEN [kind |-> "Test", index |-> base]
    ELSE [kind |-> "Test", index |-> ParseUsize(index[1])]

\* lines 31-59: the config block, and the node is constructed
StorageConfig ==
    /\ storage.pc = "config"
    /\ storage' = [storage EXCEPT
          !.pc = "spawn_loops",
          !.db_mode = Some(StorageDbMode(storage.base, storage.index))]
    /\ UNCHANGED storageOthers

\* the Raft loop is spawned before the wait for the peers
RaftBeforeWait == <<"spawn_loops", "spawn_raft", "wait_peers", "spawn_main", "join">>

\* lines 66-140: the statements of fn main, in their order
MainSteps == <<"spawn_loops", "wait_peers", "spawn_raft", "spawn_main", "join">>

\* the statement of fn main after step
After(step) == MainSteps[(CHOOSE i \in DOMAIN MainSteps : MainSteps[i] = step) + 1]

\* lines 66-74: the re-connect and the disconnect loop are spawned
SpawnControlLoops ==
    /\ storage.pc = "spawn_loops"
    /\ storage' = [storage EXCEPT !.pc = After(storage.pc), !.conn_loop = "running",
                                  !.disconn_loop = "running"]
    /\ UNCHANGED storageOthers

\* the re-connect loop opens the session to peer p
ReConnect(p) ==
    /\ storage.conn_loop = "running"
    /\ p \notin storage.connected
    /\ storage' = [storage EXCEPT !.connected = @ \cup {p}]
    /\ UNCHANGED storageOthers

\* loop_wait_connnect_to_peers_async resolves: every expected address has an
\* active session
AllConnected(connected) == Peers \subseteq connected

\* line 77
PeersConnected ==
    /\ storage.pc = "wait_peers"
    /\ AllConnected(storage.connected)
    /\ storage' = [storage EXCEPT !.pc = After(storage.pc)]
    /\ UNCHANGED storageOthers

\* lines 80-87: the Raft loop is spawned
SpawnRaftLoop ==
    /\ storage.pc = "spawn_raft"
    /\ storage' = [storage EXCEPT !.pc = After(storage.pc), !.raft_loop = "running"]
    /\ UNCHANGED storageOthers

\* lines 90-138 spawned, and main goes on to tokio::join! (line 140)
SpawnMainLoop ==
    /\ storage.pc = "spawn_main"
    /\ storage' = [storage EXCEPT !.pc = After(storage.pc), !.main_loop = "poll"]
    /\ UNCHANGED storageOthers

\* the responses handle_next_event of the storage node yields
StorageResponses ==
    {Ok(TRUE, "Block received to be added"), Ok(TRUE, "Block complete stored"),
     Ok(TRUE, "Snapshot applied"), Ok(TRUE, "Other"), Ok(FALSE, "Failure"), Err}

\* line 94: handle_next_event yields r; "Block complete stored" is the event
\* of the Raft apply handler, after it wrote the block
StorageEvent(r) ==
    /\ Polls(storage.main_loop)
    /\ r.reason = "Block complete stored" =>
          (storage.raft_loop = "running" /\ storage.stored < MaxBlocks)
    /\ storage' = [storage EXCEPT
          !.main_loop = "match", !.response = r,
          !.stored = IF r.reason = "Block complete stored" THEN @ + 1 ELSE @]
    /\ UNCHANGED storageOthers

\* lines 102-110: send_stored_block; an Err of it is logged and dropped
OnBlockStored(sent_ok) ==
    /\ storage.main_loop = "match"
    /\ storage.response = Ok(TRUE, "Block complete stored")
    /\ storage' = [storage EXCEPT !.main_loop = "poll", !.response = NoResponse,
                                  !.acked = IF sent_ok THEN @ + 1 ELSE @]
    /\ UNCHANGED storageOthers

\* lines 98-101 and 111-128: every other Ok response
OnOtherResponse ==
    /\ storage.main_loop = "match"
    /\ storage.response.result = "Ok"
    /\ storage.response # Ok(TRUE, "Block complete stored")
    /\ storage' = [storage EXCEPT !.main_loop = "poll", !.response = NoResponse]
    /\ UNCHANGED storageOthers

\* lines 129-131: panic!("ERROR HANDLING RESPONSE"); the task ends there and
\* drops the node and the two stop senders it owns
OnStorageError ==
    /\ storage.main_loop = "match"
    /\ storage.response = Err
    /\ storage' = [storage EXCEPT !.main_loop = "panicked", !.errored = TRUE]
    /\ UNCHANGED storageOthers

\* a task that is not told to stop: when the main loop task has panicked, the
\* Raft loop and the control loops either run on or end on the dropped node
\* and senders
EndsOnDrop(task) ==
    /\ storage.main_loop = "panicked"
    /\ storage[task] = "running"
    /\ storage' = [storage EXCEPT ![task] = "dropped"]
    /\ UNCHANGED storageOthers

\* handle_next_event yields None: the while loop ends (line 94)
StorageStreamEnds ==
    /\ storage.main_loop = "poll"
    /\ storage' = [storage EXCEPT !.main_loop = "shutdown",
                                  !.log = Append(@, "loop_ended")]
    /\ UNCHANGED storageOthers

\* the stop signals are sent before the Raft loop is closed
StopsFirst == <<"stop_re_connect", "stop_disconnect", "close_raft_loop">>

\* lines 134-136, in the order of the statements
ShutdownSteps == <<"close_raft_loop", "stop_re_connect", "stop_disconnect">>

\* the shutdown steps the main loop task has made
StepsMade == Len(SelectSeq(storage.log, LAMBDA e : e \in Range(ShutdownSteps)))

\* the task the step ends, and the state it ends in
StepEnds(step) ==
    CASE step = "close_raft_loop" -> [task |-> "raft_loop", as |-> "closed"]
      [] step = "stop_re_connect" -> [task |-> "conn_loop", as |-> "stopped"]
      [] step = "stop_disconnect" -> [task |-> "disconn_loop", as |-> "stopped"]

\* lines 134-136: the next of the three statements, to its completion
ShutdownStep ==
    /\ storage.main_loop = "shutdown"
    /\ LET step == ShutdownSteps[StepsMade + 1]
       IN  storage' = [storage EXCEPT
              ![StepEnds(step).task] = StepEnds(step).as,
              !.log = Append(@, step),
              !.main_loop = IF StepsMade + 1 = Len(ShutdownSteps)
                            THEN "done" ELSE @]
    /\ UNCHANGED storageOthers

\* lines 140-149: tokio::join! resolves when the four tasks have ended;
\* main.unwrap() panics when the main loop task panicked
JoinAll ==
    /\ storage.pc = "join"
    /\ storage.main_loop \in {"done", "panicked"}
    /\ storage.raft_loop \in {"closed", "dropped"}
    /\ storage.conn_loop \in {"stopped", "dropped"}
    /\ storage.disconn_loop \in {"stopped", "dropped"}
    /\ storage' = [storage EXCEPT
          !.pc = IF storage.main_loop = "panicked" THEN "exit_nonzero" ELSE "exit_zero",
          !.log = Append(@, "joined")]
    /\ UNCHANGED storageOthers

StorageNext ==
    \/ StorageConfig
    \/ SpawnControlLoops
    \/ \E p \in Peers : ReConnect(p)
    \/ PeersConnected
    \/ SpawnRaftLoop
    \/ SpawnMainLoop
    \/ \E r \in StorageResponses : StorageEvent(r)
    \/ \E sent_ok \in BOOLEAN : OnBlockStored(sent_ok)
    \/ OnOtherResponse
    \/ OnStorageError
    \/ \E task \in {"raft_loop", "conn_loop", "disconn_loop"} : EndsOnDrop(task)
    \/ StorageStreamEnds
    \/ ShutdownStep
    \/ JoinAll

\* the storage binary started; wallet and compute node are not part of it
StorageStart ==
    /\ WalletInit /\ ComputeOff /\ LockOff /\ StorageInit
    /\ user = UserOff /\ upgrade = UpgradeOff /\ addr = AddrOff /\ compute_main = MainOff

StorageSpec == StorageStart /\ [][StorageNext]_vars

(***************************************************************************)
(* Properties of the storage binary (StorageSpec).                         *)
(***************************************************************************)
\* C12: a BlockStored acknowledgment is sent to Compute if and only if the
\* Raft apply handler has stored the block: no ack without a preceding
\* "Block complete stored" event, and every such event results in an ack
\* emitted to Compute once its handler is through.
C12_AckIffStored ==
    /\ storage.acked <= storage.stored
    /\ storage.main_loop = "poll" => storage.acked = storage.stored

\* C13: the Raft loop is not running until every expected peer has an active
\* session: the wait for the peers has resolved before the Raft loop task is
\* spawned, and the re-connect and disconnect loops run while main waits.
C13_RaftAfterPeers ==
    /\ storage.raft_loop # "none" =>
          (Peers \subseteq storage.connected
              /\ storage.pc \notin {"spawn_loops", "wait_peers", "spawn_raft"})
    /\ storage.pc \in {"wait_peers", "spawn_raft"} =>
          (storage.conn_loop = "running" /\ storage.disconn_loop = "running")

C13_Witness ==
    /\ storage.pc = "spawn_main" /\ storage.raft_loop = "running"
    /\ storage.connected = Peers /\ storage.conn_loop = "running"

\* s is a prefix of t
IsPrefix(s, t) == Len(s) <= Len(t) /\ SubSeq(t, 1, Len(s)) = s

\* the shutdown that began with the event stream ending
Drained == storage.log # <<>> /\ Head(storage.log) = "loop_ended"

\* C14: storage shutdown is in this order: the main request loop ends on the
\* drained event stream, close_raft_loop is called and completes, the stop
\* signal goes to the re-connect loop and then to the disconnect loop, and
\* only then are the four tasks joined and the process returns.
C14_ShutdownOrder ==
    Drained =>
        /\ IsPrefix(storage.log, <<"loop_ended", "close_raft_loop", "stop_re_connect",
                                   "stop_disconnect", "joined">>)
        /\ ("close_raft_loop" \in Range(storage.log)) = (storage.raft_loop = "closed")
        /\ storage.pc \in {"join", "exit_zero"}
        /\ storage.pc = "exit_zero" => Len(storage.log) = 5

C14_Witness ==
    /\ storage.pc = "exit_zero"
    /\ storage.log = <<"loop_ended", "close_raft_loop", "stop_re_connect",
                       "stop_disconnect", "joined">>

\* the place of entry e in the shutdown log, 0 when it is not there
Pos(e) ==
    IF e \in Range(storage.log)
    THEN CHOOSE i \in DOMAIN storage.log : storage.log[i] = e
    ELSE 0

\* C15, as stated: on shutdown the main loop sends the stop signals to the
\* connect and disconnect loops before it calls close_raft_loop, and the
\* tasks are joined only after close_raft_loop has returned.
C15_StopsBeforeCloseRaft ==
    Drained =>
        /\ Pos("close_raft_loop") > 0 =>
              (0 < Pos("stop_re_connect") /\ Pos("stop_re_connect") < Pos("close_raft_loop")
                 /\ 0 < Pos("stop_disconnect") /\ Pos("stop_disconnect") < Pos("close_raft_loop"))
        /\ Pos("joined") > 0 =>
              (0 < Pos("close_raft_loop") /\ Pos("close_raft_loop") < Pos("joined"))

\* C15, amended: on shutdown the main loop calls close_raft_loop, and lets it
\* return, before it sends either stop signal, and the tasks are joined only
\* after close_raft_loop has returned.
C15_CloseRaftBeforeStops ==
    Drained =>
        /\ \A e \in {"stop_re_connect", "stop_disconnect"} :
              Pos(e) > 0 => (0 < Pos("close_raft_loop") /\ Pos("close_raft_loop") < Pos(e)
                                /\ storage.raft_loop = "closed")
        /\ Pos("joined") > 0 =>
              (0 < Pos("close_raft_loop") /\ Pos("close_raft_loop") < Pos("joined"))

C15_Witness ==
    /\ Drained /\ storage.main_loop = "shutdown" /\ storage.raft_loop = "closed"
    /\ storage.log = <<"loop_ended", "close_raft_loop", "stop_re_connect">>
    /\ storage.disconn_loop = "running"

\* C16: when handle_next_event yields an Err the node shuts down cleanly:
\* the stop signals are issued, the Raft loop is closed, the tasks are
\* joined and the process exits with a non-zero status.
C16_FatalErrorShutsDown ==
    (storage.errored /\ storage.pc \in {"exit_zero", "exit_nonzero"}) =>
        /\ storage.pc = "exit_nonzero"
        /\ {"close_raft_loop", "stop_re_connect", "stop_disconnect", "joined"}
              \subseteq Range(storage.log)

\* C22: in the storage binary the effective test DB index is the configured
\* Test base plus the --index value: with storage_db_mode Test(b) and
\* --index=n the resulting storage_db_mode is Test(b + n), for every base b.
C22_StorageTestIndexAdditive ==
    (storage.db_mode # None /\ storage.index # None) =>
        storage.db_mode[1] =
            [kind |-> "Test", index |-> storage.base + ParseUsize(storage.index[1])]

(***************************************************************************)
(* LoopsSpec: the main loop of the compute binary and the main loop of the *)
(* storage binary, each binary run from its start.                         *)
(***************************************************************************)
\* the compute binary at the start of its loop, the storage binary at its
\* start, run without --index
LoopsStart ==
    /\ WalletInit /\ ComputeInit /\ LockOff
    /\ StorageInit /\ storage.index = None /\ storage.base = 0
    /\ user = UserOff /\ upgrade = UpgradeOff /\ addr = AddrOff /\ compute_main = MainOff

LoopsNext == ComputeNext \/ StorageNext

LoopsSpec == LoopsStart /\ [][LoopsNext]_vars

\* C27: the main loop processes responses one at a time, in the order
\* handle_next_event yields them: a response is taken only when no handler
\* is running, and the handler of a response, with every flood or send it
\* awaits, has completed (or has ended the task) before handle_next_event
\* is polled for the next one.
C27_OneResponseAtATime ==
    [][/\ (response' # response /\ response' # NoResponse) =>
            (compute_pc = "poll" /\ response = NoResponse /\ compute_pc' = "match")
       /\ (compute_pc = "match" /\ compute_pc' # "match") =>
            \/ compute_pc' = "panicked"
            \/ /\ compute_pc' = "poll" /\ response' = NoResponse
               /\ handled'.reason = response.reason
       /\ (storage.response' # storage.response /\ storage.response' # NoResponse) =>
            /\ storage.main_loop = "poll" /\ storage.response = NoResponse
            /\ storage.main_loop' = "match"
       /\ (storage.main_loop = "match" /\ storage.main_loop' # "match") =>
            \/ storage.main_loop' = "panicked"
            \/ storage.main_loop' = "poll" /\ storage.response' = NoResponse]_vars

C27_Witness ==
    /\ compute_pc = "match" /\ response = Ok(TRUE, "Received PoW successfully")
    /\ handled.reason = "Partition request received successfully"
    /\ Len(sent) = 1
    /\ storage.main_loop = "match" /\ storage.acked = 1
    /\ storage.response = Ok(TRUE, "Block complete stored")

(***************************************************************************)
(* UserSpec: fn main of the user binary (bin/user.rs) and its request      *)
(* task. The UserNode and the control loops are not part of the binary     *)
(* and are modelled from the specification (sections 4.1 and 4.4).         *)
(***************************************************************************)
\* the variables the user binary leaves alone
userOthers ==
    <<walletVars, computeVars, lockVars, storage, upgrade, addr, compute_main>>

\* the kinds of event the node receives
EventKinds == {"SendAddressRequest", "SendPaymentTransaction"}

\* line 17: the command line is read (--amount given or not, --index); the
\* settings file sets user_db_mode = Test(base)
UserInit ==
    \E pay \in BOOLEAN, index \in IndexArgs, base \in TestBases :
        user = [UserOff EXCEPT !.pc = "load_settings", !.pay = pay,
                               !.index = index, !.base = base]

\* --index replaces the value of Test
UserDbModeReplaced(base, index) ==
    IF index = None THEN [kind |-> "Test", index |-> base]
    ELSE [kind |-> "Test", index |-> ParseUsize(index[1])]

\* lines 223-232: with --index the value of Test becomes the text of
\* index + test_idx; configuration (line 258) reads it into the config
UserDbMode(base, index) ==
    IF index = None THEN [kind |-> "Test", index |-> base]
    ELSE [kind |-> "Test",
          index |-> ParseUsize(ToString(ParseUsize(index[1]) + base))]

\* lines 18-49: load_settings and configuration, the node is constructed
\* and the control loops are spawned
UserLoadSettings ==
    /\ user.pc = "load_settings"
    /\ user' = [user EXCEPT
          !.pc = "wait_peers", !.conn_loop = "running", !.disconn_loop = "running",
          !.db_mode = Some(UserDbMode(user.base, user.index))]
    /\ UNCHANGED userOthers

\* the re-connect loop opens the session to peer p
UserReConnect(p) ==
    /\ user.conn_loop = "running"
    /\ p \notin user.connected
    /\ user' = [user EXCEPT !.connected = @ \cup {p}]
    /\ UNCHANGED userOthers

\* lines 51-114: the wait for the peers resolves; with --amount the address
\* request is sent; the request task and the HTTP API task are spawned and
\* main goes on to tokio::join!
UserPeersConnected ==
    /\ user.pc = "wait_peers"
    /\ AllConnected(user.connected)
    /\ user' = [user EXCEPT
          !.pc = "join", !.main_loop = "startup", !.warp = "spawned",
          !.log = IF user.pay THEN Append(@, "send_address_request") ELSE @]
    /\ UNCHANGED userOthers

\* an event reaches the node and waits in its channel
UserEventArrives(e) ==
    /\ user.pc \notin {"off", "load_settings"}
    /\ Len(user.arrived) < MaxEvents
    /\ user' = [user EXCEPT !.arrived = Append(@, e)]
    /\ UNCHANGED userOthers

\* line 70: node.send_startup_requests().await.unwrap()
SendStartupRequests ==
    /\ user.main_loop = "startup"
    /\ user' = [user EXCEPT !.main_loop = "poll",
                            !.log = Append(@, "send_startup_requests")]
    /\ UNCHANGED userOthers

\* the loop goes on whatever handle_next_event_response returns
NeverLeaves(result) == FALSE

\* lines 74-76: the break
LeavesLoop(result) == result = "Exit"

\* lines 73-77: the next event of the channel is taken and handled, and
\* handle_next_event_response returns result
UserHandlesEvent(result) ==
    /\ user.main_loop = "poll"
    /\ Len(user.handled) < Len(user.arrived)
    /\ user' = [user EXCEPT
          !.handled = Append(@, user.arrived[Len(user.handled) + 1]),
          !.exit_at = IF result = "Exit" /\ @ = 0 THEN Len(user.handled) + 1 ELSE @,
          !.main_loop = IF LeavesLoop(result) THEN "shutdown" ELSE "poll"]
    /\ UNCHANGED userOthers

\* handle_next_event yields None: the while loop ends (line 73)
UserStreamEnds ==
    /\ user.main_loop = "poll"
    /\ Len(user.handled) = Len(user.arrived)
    /\ user' = [user EXCEPT !.main_loop = "shutdown"]
    /\ UNCHANGED userOthers

\* lines 78-80, in the order of the statements
UserShutdownSteps == <<"stop_re_connect", "stop_disconnect", "shutdown_connections">>

\* the shutdown steps the request task has made
UserStepsMade == Len(SelectSeq(user.log, LAMBDA e : e \in Range(UserShutdownSteps)))

\* lines 78-80: the next of the three statements
UserShutdownStep ==
    /\ user.main_loop = "shutdown"
    /\ LET step == UserShutdownSteps[UserStepsMade + 1]
       IN  user' = [user EXCEPT
              !.log = Append(@, step),
              !.conn_loop = IF step = "stop_re_connect" THEN "stopped" ELSE @,
              !.disconn_loop = IF step = "stop_disconnect" THEN "stopped" ELSE @,
              !.connected = IF step = "shutdown_connections" THEN {} ELSE @,
              !.main_loop = IF UserStepsMade + 1 = Len(UserShutdownSteps)
                            THEN "done" ELSE @]
    /\ UNCHANGED userOthers

\* lines 93-111: warp::serve(..).tls()..run(bind_address).await has no
\* shutdown signal: the future resolves only by the panic of a failed bind
WarpEnded(warp) == warp = "panicked"

\* lines 95-110: the HTTP API task binds the port and serves from then on,
\* or panics because the bind failed
WarpRun(bound) ==
    /\ user.warp = "spawned"
    /\ user' = [user EXCEPT !.warp = IF bound THEN "serving" ELSE "panicked"]
    /\ UNCHANGED userOthers

\* lines 114-123: tokio::join! resolves when the four tasks have ended;
\* warp_result.unwrap() panics when the HTTP API task panicked
UserJoinAll ==
    /\ user.pc = "join"
    /\ user.main_loop = "done"
    /\ WarpEnded(user.warp)
    /\ user.conn_loop = "stopped"
    /\ user.disconn_loop = "stopped"
    /\ user' = [user EXCEPT
          !.pc = IF user.warp = "panicked" THEN "exit_nonzero" ELSE "exit_zero"]
    /\ UNCHANGED userOthers

UserNext ==
    \/ UserLoadSettings
    \/ \E p \in Peers : UserReConnect(p)
    \/ UserPeersConnected
    \/ \E e \in EventKinds : UserEventArrives(e)
    \/ SendStartupRequests
    \/ \E result \in {"Continue", "Exit"} : UserHandlesEvent(result)
    \/ UserStreamEnds
    \/ UserShutdownStep
    \/ \E bound \in BOOLEAN : WarpRun(bound)
    \/ UserJoinAll

\* the user binary started; the other binaries are not part of it
UserStart ==
    /\ WalletInit /\ ComputeOff /\ LockOff /\ storage = StorageOff /\ UserInit
    /\ upgrade = UpgradeOff /\ addr = AddrOff /\ compute_main = MainOff

UserSpec == UserStart /\ [][UserNext]_vars

\* the executor runs every task that is ready: the request task goes through
\* its shutdown statements, the HTTP API task is polled, and main is woken
\* when the join is ready
UserFairSpec ==
    /\ UserSpec
    /\ WF_vars(UserShutdownStep)
    /\ WF_vars(\E bound \in BOOLEAN : WarpRun(bound))
    /\ WF_vars(UserJoinAll)

(***************************************************************************)
(* Properties of the user binary (UserSpec).                               *)
(***************************************************************************)
\* C18: the user node sends its startup requests, after all expected peers
\* are connected, before it processes any event; it then handles every
\* event in order until handle_next_event_response returns Exit or the
\* stream ends; no event is processed after Exit; after leaving the loop it
\* sends the stop signal to the re-connect loop, then to the disconnect
\* loop, then shuts down its connections.
C18_UserLoopOrder ==
    LET steps == SelectSeq(user.log, LAMBDA e : e \in Range(UserShutdownSteps))
        started == "send_startup_requests" \in Range(user.log)
    IN  /\ user.handled # <<>> => started
        /\ (started /\ steps = <<>>) => Peers \subseteq user.connected
        /\ IsPrefix(user.handled, user.arrived)
        /\ user.exit_at > 0 =>
              (Len(user.handled) = user.exit_at /\ user.main_loop \in {"shutdown", "done"})
        /\ IsPrefix(steps, <<"stop_re_connect", "stop_disconnect", "shutdown_connections">>)
        /\ steps # <<>> => user.main_loop \in {"shutdown", "done"}
        /\ user.main_loop = "done" => Len(steps) = 3

C18_Witness ==
    /\ user.main_loop = "done" /\ user.exit_at = 2 /\ Len(user.arrived) = 3
    /\ user.handled = <<"SendAddressRequest", "SendPaymentTransaction">>
    /\ user.log = <<"send_startup_requests", "stop_re_connect", "stop_disconnect",
                    "shutdown_connections">>

\* C21: in the user binary the effective test DB index is the configured
\* Test base plus the --index value: with user_db_mode Test(b) and --index=n
\* the resulting user_db_mode is Test(b + n), and without --index it stays
\* Test(b).
C21_UserTestIndexAdditive ==
    user.db_mode # None =>
        user.db_mode[1] =
            [kind |-> "Test",
             index |-> IF user.index = None THEN user.base
                       ELSE user.base + ParseUsize(user.index[1])]

C21_Witness ==
    /\ user.base = 1000 /\ user.index = Some("1")
    /\ user.db_mode = Some([kind |-> "Test", index |-> 1001])

\* the request task left its loop on Exit and went through its shutdown
\* statements, and both control loops stopped on their stop signal
UserLoopsStopped ==
    /\ user.exit_at > 0 /\ user.main_loop = "done"
    /\ user.conn_loop = "stopped" /\ user.disconn_loop = "stopped"

\* C31: after the user main loop exits on Exit and both control loops have
\* stopped on their stop signal, the user process eventually terminates:
\* the join over the main, HTTP API, re-connect and disconnect tasks
\* completes.
C31_UserTerminates ==
    UserLoopsStopped ~> (user.pc \in {"exit_zero", "exit_nonzero"})

(***************************************************************************)
(* UpgradeSpec: the upgrade binary (bin/upgrade.rs): fn configuration on   *)
(* a command line and a settings file.                                     *)
(***************************************************************************)
\* the variables the upgrade binary leaves alone
upgradeOthers ==
    <<walletVars, computeVars, lockVars, storage, user, addr, compute_main>>

\* line 12
NODE_TYPES == <<"compute", "storage", "user", "miner">>

\* format!("{}.{}", node_type, node_index)
NodeName(node_type, node_index) == node_type \o "." \o ToString(node_index)

\* the names an --ignore list is made of here
IgnoreNames == {NodeName(NODE_TYPES[t], i) : t \in DOMAIN NODE_TYPES, i \in 0..(MaxNodes - 1)}

\* the index of <type>_db_mode = Test(index) in the settings files of the
\* tests: 1000 for the user nodes, 0 for the others
TestBase(node_type) == IF node_type = "user" THEN 1000 ELSE 0

\* settings.get("<type>_db_mode")
DbModeOf(settings, node_type) ==
    IF settings.db_mode = "Test"
    THEN [kind |-> "Test", index |-> TestBase(node_type)]
    ELSE [kind |-> settings.db_mode, index |-> 0]

\* the node index is dropped
TestSameForAll(index, node_index) == [kind |-> "Test", index |-> index]

\* lines 204 and 217: DbMode::Test(index + node_index)
TestOffset(index, node_index) == [kind |-> "Test", index |-> index + node_index]

\* lines 195-210: the loops of --type all, from type t (a place in
\* NODE_TYPES) and node_index on
RECURSIVE AllUpgrades(_, _, _, _)
AllUpgrades(settings, ignore, t, node_index) ==
    IF t > Len(NODE_TYPES) THEN <<>>
    ELSE IF node_index >= settings.nodes[NODE_TYPES[t]]
    THEN AllUpgrades(settings, ignore, t + 1, 0)
    ELSE LET node_type == NODE_TYPES[t]
             db_mode == DbModeOf(settings, node_type)
         IN  (IF NodeName(node_type, node_index) \notin ignore /\ db_mode.kind = "Test"
              THEN <<[node_type |-> node_type,
                      mode |-> TestOffset(db_mode.index, node_index)]>>
              ELSE <<>>)
             \o AllUpgrades(settings, ignore, t, node_index + 1)

\* lines 211-221: one node type
OneUpgrade(settings, args) ==
    LET db_mode == DbModeOf(settings, args.type)
        node_index == IF args.index = None THEN 0 ELSE args.index[1]
    IN  <<[node_type |-> args.type,
           mode |-> IF db_mode.kind = "Test"
                    THEN TestOffset(db_mode.index, node_index) ELSE db_mode]>>

\* lines 166-227: fn configuration
Configuration(settings, args) ==
    IF \/ args.compute_block = None
       \/ args.type # "all" /\ args.type \notin Range(NODE_TYPES)
    THEN [pc |-> "panicked", db_modes |-> <<>>, raft_len |-> 0]
    ELSE [pc |-> "configured",
          db_modes |-> IF args.type = "all"
                       THEN AllUpgrades(settings, args.ignore, 1, 0)
                       ELSE OneUpgrade(settings, args),
          raft_len |-> settings.nodes["storage"]]

\* a settings file, and a command line with --processing read and
\* --compute_block mine, as in the tests at lines 236-242 and 309-315
UpgradeInit ==
    \E type \in Range(NODE_TYPES) \cup {"all", "other"},
       index \in {None} \cup {Some(i) : i \in 0..(MaxNodes - 1)},
       ignore \in {ns \in SUBSET IgnoreNames : Cardinality(ns) <= MaxIgnored},
       nodes \in [Range(NODE_TYPES) -> 1..MaxNodes],
       db_mode \in {"Test", "Live", "InMemory"} :
        upgrade = [UpgradeOff EXCEPT
                      !.pc = "main",
                      !.args = [type |-> type, index |-> index, ignore |-> ignore,
                                processing |-> "read",
                                compute_block |-> Some("mine")],
                      !.settings = [nodes |-> nodes, db_mode |-> db_mode]]

\* a settings file, and a command line that has --type and --processing,
\* has --compute_block or not, and has neither --index nor --ignore
ProcessInit ==
    \E type \in Range(NODE_TYPES) \cup {"all", "other"},
       nodes \in [Range(NODE_TYPES) -> 1..MaxNodes],
       db_mode \in {"Test", "Live", "InMemory"},
       processing \in {"read", "upgrade"},
       compute_block \in {None, Some("mine"), Some("discard")} :
        upgrade = [UpgradeOff EXCEPT
                      !.pc = "main",
                      !.args = [type |-> type, index |-> None, ignore |-> {},
                                processing |-> processing,
                                compute_block |-> compute_block],
                      !.settings = [nodes |-> nodes, db_mode |-> db_mode]]

\* line 25: configuration(load_settings(&matches), &matches)
Configure ==
    /\ upgrade.pc = "main"
    /\ \E c \in {Configuration(upgrade.settings, upgrade.args)} :
          upgrade' = [upgrade EXCEPT !.pc = c.pc, !.db_modes = c.db_modes,
                                     !.raft_len = c.raft_len]
    /\ UNCHANGED upgradeOthers

\* the databases the system owns, each a node type and a suffix
DB_SPEC_INFOS ==
    <<[node_type |-> "compute", suffix |-> ""],
      [node_type |-> "compute", suffix |-> ".compute_raft"],
      [node_type |-> "storage", suffix |-> ""],
      [node_type |-> "storage", suffix |-> ".storage_raft"],
      [node_type |-> "user", suffix |-> ""],
      [node_type |-> "miner", suffix |-> ""]>>

\* lines 93-99
raft_for_spec(spec) == IF spec.suffix = "" THEN "" ELSE "_raft"

\* str::to_ascii_uppercase of a node type
ToAsciiUppercase ==
    [compute |-> "COMPUTE", storage |-> "STORAGE", user |-> "USER", miner |-> "MINER"]

\* line 59: the name of the constant printed for a database
ConstName(spec) ==
    ToAsciiUppercase[spec.node_type] \o (IF raft_for_spec(spec) = "" THEN "" ELSE "_RAFT")
        \o "_DB_V0_2_0"

\* the databases of node_type, in the order of DB_SPEC_INFOS
SpecsOf(node_type) == SelectSeq(DB_SPEC_INFOS, LAMBDA spec : spec.node_type = node_type)

\* a database on disk: of a node type and suffix, under a db mode
Db(entry, suffix) == [node_type |-> entry.node_type, suffix |-> suffix, mode |-> entry.mode]

\* the databases the upgrade of an entry of the list rewrites
DbsOf(entry) == {Db(entry, SpecsOf(entry.node_type)[k].suffix) :
                    k \in DOMAIN SpecsOf(entry.node_type)}

\* what a database holds: the V0.2.0 layout until it is upgraded
Version(db) == IF db \in upgrade.upgraded THEN "current" ELSE "V0_2_0"

\* the header carries the number of the run
HeaderNumbered(db_modes) == <<<<"header", db_modes, Len(upgrade.runs)>>>>

\* lines 47-53: the header of the generated file
Header(db_modes) == <<<<"header", db_modes>>>>

\* lines 55-67: what is printed for the first `read` databases of an entry,
\* dump_db giving the entries of the database as they are on disk
RECURSIVE ReadOut(_, _)
ReadOut(entry, read) ==
    IF read = 0 THEN <<>>
    ELSE LET spec == SpecsOf(entry.node_type)[read]
         IN  ReadOut(entry, read - 1)
                \o <<<<"const", ConstName(spec), Version(Db(entry, spec.suffix))>>>>

\* lines 29-31, 35-37 and 42: what main returns, and the process ends
Exit(result) == [upgrade EXCEPT !.pc = "exit", !.result = Some(result)]

\* lines 27-29, 47-53: process_read is entered
ProcessRead ==
    /\ upgrade.pc = "configured"
    /\ upgrade.args.processing = "read"
    /\ upgrade' = [upgrade EXCEPT !.pc = "process_read", !.next = 1,
                                  !.output = Header(upgrade.db_modes)]
    /\ UNCHANGED upgradeOthers

\* lines 54-67: one entry of the list is read out; opening one of its
\* databases may fail (fails: which one, 0 for none)
ReadDatabases(fails) ==
    /\ upgrade.pc = "process_read"
    /\ upgrade.next <= Len(upgrade.db_modes)
    /\ LET entry == upgrade.db_modes[upgrade.next]
           specs == SpecsOf(entry.node_type)
           read == IF fails = 0 THEN Len(specs) ELSE fails - 1
           out == upgrade.output \o ReadOut(entry, read)
           opened == upgrade.opened \cup {Db(entry, specs[k].suffix) : k \in 1..read}
       IN  /\ fails <= Len(specs)
           /\ upgrade' =
                IF fails = 0
                THEN [upgrade EXCEPT !.next = @ + 1, !.output = out, !.opened = opened]
                ELSE [Exit("Err") EXCEPT !.output = out, !.opened = opened]
    /\ UNCHANGED upgradeOthers

\* lines 69, 42: every entry was read out
ProcessReadEnds ==
    /\ upgrade.pc = "process_read"
    /\ upgrade.next > Len(upgrade.db_modes)
    /\ upgrade' = Exit("Ok")
    /\ UNCHANGED upgradeOthers

\* lines 34-35, 77: process_upgrade is entered
ProcessUpgrade ==
    /\ upgrade.pc = "configured"
    /\ upgrade.args.processing = "upgrade"
    /\ upgrade' = [upgrade EXCEPT !.pc = "process_upgrade", !.next = 1]
    /\ UNCHANGED upgradeOthers

\* the loop goes on after an error
GoesOnAfter(outcome) == [upgrade EXCEPT !.next = @ + 1]

\* lines 82-86: the ? operator returns the error from process_upgrade
Aborts(outcome) == Exit("Err")

\* lines 78-89: one entry of the list is upgraded: get_upgrade_*_db opens the
\* databases, upgrade_*_db rewrites them in one batch or leaves them as
\* they are and returns an error
UpgradeDatabase(outcome) ==
    /\ upgrade.pc = "process_upgrade"
    /\ upgrade.next <= Len(upgrade.db_modes)
    /\ LET entry == upgrade.db_modes[upgrade.next]
       IN  upgrade' =
            IF entry.node_type \notin Range(NODE_TYPES) \/ outcome = "open_error"
            THEN [Aborts(outcome) EXCEPT !.failed = Some(upgrade.next)]
            ELSE IF outcome = "upgrade_error"
            THEN [Aborts(outcome) EXCEPT !.failed = Some(upgrade.next),
                                         !.opened = @ \cup DbsOf(entry)]
            ELSE [upgrade EXCEPT !.next = @ + 1,
                                 !.opened = @ \cup DbsOf(entry),
                                 !.upgraded = @ \cup DbsOf(entry)]
    /\ UNCHANGED upgradeOthers

\* lines 90, 42: every entry was upgraded
ProcessUpgradeEnds ==
    /\ upgrade.pc = "process_upgrade"
    /\ upgrade.next > Len(upgrade.db_modes)
    /\ upgrade' = Exit("Ok")
    /\ UNCHANGED upgradeOthers

\* after a run that read every database the tool is run once more, with
\* the same command line on the same databases
RunAgain ==
    /\ upgrade.pc = "exit"
    /\ upgrade.args.processing = "read"
    /\ upgrade.result = Some("Ok")
    /\ Len(upgrade.runs) < MaxRuns - 1
    /\ upgrade' = [upgrade EXCEPT
          !.pc = "main", !.db_modes = <<>>, !.raft_len = 0, !.next = 0,
          !.opened = {}, !.output = <<>>, !.result = None,
          !.runs = Append(@, [output |-> upgrade.output, result |-> upgrade.result[1],
                              upgraded |-> upgrade.upgraded])]
    /\ UNCHANGED upgradeOthers

\* fn configuration on its own
UpgradeNext == Configure

\* fn main from its start to its end
ProcessNext ==
    \/ Configure
    \/ ProcessRead
    \/ \E fails \in 0..Len(DB_SPEC_INFOS) : ReadDatabases(fails)
    \/ ProcessReadEnds
    \/ ProcessUpgrade
    \/ \E outcome \in {"ok", "open_error", "upgrade_error"} : UpgradeDatabase(outcome)
    \/ ProcessUpgradeEnds
    \/ RunAgain

\* the upgrade binary started; the other binaries are not part of it
UpgradeStart ==
    WalletInit /\ ComputeOff /\ LockOff /\ storage = StorageOff /\ user = UserOff
        /\ UpgradeInit /\ addr = AddrOff /\ compute_main = MainOff

UpgradeSpec == UpgradeStart /\ [][UpgradeNext]_vars

ProcessStart ==
    WalletInit /\ ComputeOff /\ LockOff /\ storage = StorageOff /\ user = UserOff
        /\ ProcessInit /\ addr = AddrOff /\ compute_main = MainOff

ProcessSpec == ProcessStart /\ [][ProcessNext]_vars

(***************************************************************************)
(* Properties of the upgrade binary (UpgradeSpec).                         *)
(***************************************************************************)
\* the entry of node node_index of node_type under Test db modes
TestEntry(node_type, node_index) ==
    [node_type |-> node_type,
     mode |-> [kind |-> "Test", index |-> TestBase(node_type) + node_index]]

\* the place of node_type in the order compute, storage, user, miner
TypeRank(node_type) == CHOOSE t \in DOMAIN NODE_TYPES : NODE_TYPES[t] = node_type

\* C19: for settings whose db modes are Test(base): with --type all the list
\* of databases is, in the order compute, storage, user, miner and within a
\* type in ascending node index, exactly one entry (type, Test(base + i)) for
\* every configured node i of the type whose "type.i" is not ignored; with
\* --type T it is the one entry (T, Test(base + index)), index being --index
\* or 0; raft_len is the number of configured storage nodes.
C19_ConfigurationList ==
    upgrade.pc = "configured" =>
        LET r == upgrade.db_modes
            args == upgrade.args
            nodes == upgrade.settings.nodes
        IN  /\ upgrade.raft_len = nodes["storage"]
            /\ (upgrade.settings.db_mode = "Test" /\ args.type = "all") =>
                  /\ \A k \in DOMAIN r :
                        \E i \in 0..(nodes[r[k].node_type] - 1) :
                            /\ r[k] = TestEntry(r[k].node_type, i)
                            /\ NodeName(r[k].node_type, i) \notin args.ignore
                  /\ \A t \in DOMAIN NODE_TYPES :
                        \A i \in 0..(nodes[NODE_TYPES[t]] - 1) :
                            NodeName(NODE_TYPES[t], i) \notin args.ignore =>
                                Cardinality({k \in DOMAIN r :
                                    r[k] = TestEntry(NODE_TYPES[t], i)}) = 1
                  /\ \A k, l \in DOMAIN r :
                        k < l =>
                            \/ TypeRank(r[k].node_type) < TypeRank(r[l].node_type)
                            \/ /\ r[k].node_type = r[l].node_type
                               /\ r[k].mode.index < r[l].mode.index
            /\ (upgrade.settings.db_mode = "Test" /\ args.type # "all") =>
                  r = <<TestEntry(args.type,
                                  IF args.index = None THEN 0 ELSE args.index[1])>>

C19_Witness ==
    /\ upgrade.pc = "configured" /\ upgrade.settings.db_mode = "Test"
    /\ upgrade.args.type = "all" /\ upgrade.args.ignore = {"user.0"}
    /\ upgrade.settings.nodes = [t \in Range(NODE_TYPES) |-> 2]
    /\ Len(upgrade.db_modes) = 7
    /\ upgrade.db_modes[5] = TestEntry("user", 1)
    /\ upgrade.raft_len = 2

\* C23: if upgrading any database fails, the upgrade run aborts and returns
\* the error: the database whose upgrade failed is left as it was before
\* the run, and no database that comes later in the list is opened or
\* modified.
C23_FailedUpgradeAborts ==
    upgrade.failed # None =>
        LET f == upgrade.failed[1]
        IN  /\ upgrade.pc = "exit"
            /\ upgrade.result = Some("Err")
            /\ DbsOf(upgrade.db_modes[f]) \cap upgrade.upgraded = {}
            /\ \A k \in (f + 1)..Len(upgrade.db_modes) :
                    DbsOf(upgrade.db_modes[k]) \cap (upgrade.opened \cup upgrade.upgraded) = {}

C23_Witness ==
    /\ upgrade.pc = "exit" /\ upgrade.failed = Some(2)
    /\ Len(upgrade.db_modes) >= 3
    /\ upgrade.upgraded = DbsOf(upgrade.db_modes[1])
    /\ upgrade.opened = DbsOf(upgrade.db_modes[1]) \cup DbsOf(upgrade.db_modes[2])

C25_ReadNeedsNoComputeBlock ==
    (/\ upgrade.args.type = "all"
     /\ upgrade.args.processing = "read"
     /\ upgrade.args.compute_block = None) => upgrade.pc \notin {"panicked"}

\* the node index an entry of the list stands for
EntryNode(e) ==
    IF e.mode.kind = "Test" THEN e.mode.index - TestBase(e.node_type)
    ELSE IF upgrade.args.index = None THEN 0 ELSE upgrade.args.index[1]

\* C20: a node named in the --ignore list is never read or upgraded:
\* whatever --type is selected, no entry for a "type.index" listed in
\* --ignore is in the list of databases to process.
C20_IgnoredNeverListed ==
    upgrade.pc = "configured" =>
        \A k \in DOMAIN upgrade.db_modes :
            NodeName(upgrade.db_modes[k].node_type, EntryNode(upgrade.db_modes[k]))
                \notin upgrade.args.ignore

\* C34: in the constant table emitted by read processing the names of the
\* emitted constants are pairwise distinct, for every list of databases
\* configuration can produce (--type all on settings with several nodes of
\* one type included): each dumped database has its own constant.
C34_ConstNamesDistinct ==
    \A i, j \in DOMAIN upgrade.output :
        (i # j /\ upgrade.output[i][1] = "const" /\ upgrade.output[j][1] = "const")
            => upgrade.output[i][2] # upgrade.output[j][2]

\* C33: for every node type T, --type all selects the databases --type T
\* selects: whenever --type T yields an entry for T, for a db mode of T that
\* is Live, InMemory or Test, --type all with an empty ignore list yields at
\* least one entry for T with the same kind of db mode.
C33_AllSelectsLikeSingle ==
    (upgrade.pc = "configured" /\ upgrade.args.type = "all" /\ upgrade.args.ignore = {}) =>
        \A T \in Range(NODE_TYPES) :
            LET single == Configuration(upgrade.settings, [upgrade.args EXCEPT !.type = T])
            IN  \A k \in DOMAIN single.db_modes :
                    \E a \in DOMAIN upgrade.db_modes :
                        /\ upgrade.db_modes[a].node_type = T
                        /\ upgrade.db_modes[a].mode.kind = single.db_modes[k].mode.kind

(***************************************************************************)
(* AddressSpec: construct_address (wallet/mod.rs lines 371-385), statement *)
(* by statement.  The public key is a sequence of 32 bytes, a hash a       *)
(* sequence of bytes, and Sha3_256::digest is SHA3-256 of FIPS 202 on a    *)
(* state of 1600 bits, one round of Keccak-f a step.                       *)
(***************************************************************************)
MaxPubKeys == 1  \* public keys other than the one of the tests
MaxNet == 1      \* the largest network version (a u8)

addrOthers ==
    <<walletVars, computeVars, lockVars, storage, user, upgrade, compute_main>>

\* the public key of the tests at lines 432-435 and 450-453
S1 ==
    <<196, 234, 50, 92, 76, 102, 62, 4, 231, 81, 211, 133, 33, 164, 134, 52,
      44, 68, 174, 18, 14, 59, 108, 187, 150, 190, 169, 229, 215, 130, 78, 78>>

PublicKeys ==
    {S1} \cup {[i \in 1..32 |-> (k * i + 7 * k * k) % 256] : k \in 1..MaxPubKeys}

\* construct_address is called with a public key and a network version
AddrInit ==
    \E pub_key \in PublicKeys, net \in 0..MaxNet :
        addr = [AddrOff EXCEPT !.pc = "serialize", !.pub_key = pub_key, !.net = net]

\* bincode's serialize of a PublicKey: the length as a little-endian u64,
\* then the 32 bytes
Serialize(pub_key) ==
    <<Len(pub_key) % 256, 0, 0, 0, 0, 0, 0, 0>> \o pub_key

\* a function on 1..n as a sequence
Tuple(f) == SubSeq(f, 1, Len(f))

\* bit z of lane (x, y) of a Keccak state
Bit(A, x, y, z) == A[64 * (5 * (y % 5) + (x % 5)) + (z % 64) + 1]

\* the rotation offsets of rho, lane x + 5 * y
RHO ==
    << 0,  1, 62, 28, 27,
      36, 44,  6, 55, 20,
       3, 10, 43, 25, 39,
      41, 45, 15, 21,  8,
      18,  2, 61, 56, 14>>

\* the round constants of iota, each the set of the bits it sets
RC ==
    <<{0},
      {1, 7, 15},
      {1, 3, 7, 15, 63},
      {15, 31, 63},
      {0, 1, 3, 7, 15},
      {0, 31},
      {0, 7, 15, 31, 63},
      {0, 3, 15, 63},
      {1, 3, 7},
      {3, 7},
      {0, 3, 15, 31},
      {1, 3, 31},
      {0, 1, 3, 7, 15, 31},
      {0, 1, 3, 7, 63},
      {0, 3, 7, 15, 63},
      {0, 1, 15, 63},
      {1, 15, 63},
      {7, 63},
      {1, 3, 15},
      {1, 3, 31, 63},
      {0, 7, 15, 31, 63},
      {7, 15, 63},
      {0, 31},
      {3, 15, 31, 63}>>

Theta(A) ==
    LET C == Tuple([i \in 1..320 |->
                LET x == (i - 1) \div 64
                    z == (i - 1) % 64
                IN  ((Bit(A, x, 0, z) # Bit(A, x, 1, z))
                        # (Bit(A, x, 2, z) # Bit(A, x, 3, z))) # Bit(A, x, 4, z)])
        c(x, z) == C[64 * (x % 5) + (z % 64) + 1]
    IN  Tuple([i \in 1..1600 |->
            LET x == ((i - 1) \div 64) % 5
                z == (i - 1) % 64
            IN  A[i] # (c(x + 4, z) # c(x + 1, z + 63))])

RhoPi(A) ==
    Tuple([i \in 1..1600 |->
        LET X == ((i - 1) \div 64) % 5
            Y == (i - 1) \div 320
            z == (i - 1) % 64
            x == (X + 3 * Y) % 5
        IN  Bit(A, x, X, z + 64 - RHO[5 * X + x + 1])])

ChiIota(A, ir) ==
    Tuple([i \in 1..1600 |->
        LET x == ((i - 1) \div 64) % 5
            y == (i - 1) \div 320
            z == (i - 1) % 64
            chi == A[i] # (~Bit(A, x + 1, y, z) /\ Bit(A, x + 2, y, z))
        IN  IF i <= 64 /\ z \in RC[ir] THEN ~chi ELSE chi])

\* the message padded with 0x06 .. 0x80 to the rate of 136 bytes, as the
\* first 1088 bits of the state (least significant bit first)
Absorb(msg) ==
    LET padded == msg \o <<6>> \o [i \in 1..(134 - Len(msg)) |-> 0] \o <<128>>
    IN  Tuple([i \in 1..1600 |->
            i <= 1088 /\ (padded[((i - 1) \div 8) + 1] \div (2 ^ ((i - 1) % 8))) % 2 = 1])

\* the first 32 bytes of the state
Squeeze(A) ==
    LET b(k, j) == IF A[8 * (k - 1) + j + 1] THEN 2 ^ j ELSE 0
    IN  [k \in 1..32 |-> b(k, 0) + b(k, 1) + b(k, 2) + b(k, 3)
                            + b(k, 4) + b(k, 5) + b(k, 6) + b(k, 7)]

\* truncate(20)
TruncateTo20(hash) == SubSeq(hash, 1, 20)

\* line 379: second_hash.truncate(16)
Truncate(hash) == SubSeq(hash, 1, 16)

HexDigits ==
    <<"0", "1", "2", "3", "4", "5", "6", "7", "8", "9", "a", "b", "c", "d", "e", "f">>

\* hex::encode
RECURSIVE HexEncode(_)
HexEncode(bytes) ==
    IF bytes = <<>> THEN ""
    ELSE HexDigits[(Head(bytes) \div 16) + 1] \o HexDigits[(Head(bytes) % 16) + 1]
            \o HexEncode(Tail(bytes))

\* line 372
SerializePubKey ==
    /\ addr.pc = "serialize"
    /\ addr' = [addr EXCEPT !.pc = "digest", !.digest = 1,
                            !.bytes = Serialize(addr.pub_key)]
    /\ UNCHANGED addrOthers

\* lines 373 and 378: Sha3_256::digest takes the message in
Digest ==
    /\ addr.pc = "digest"
    /\ addr' = [addr EXCEPT !.pc = "keccak", !.round = 1, !.bytes = <<>>,
                            !.state = Absorb(addr.bytes)]
    /\ UNCHANGED addrOthers

\* one of the 24 rounds of Keccak-f[1600]
KeccakRound ==
    /\ addr.pc = "keccak"
    /\ addr.round <= 24
    /\ addr' = [addr EXCEPT !.round = @ + 1,
                            !.state = ChiIota(RhoPi(Theta(addr.state)), addr.round)]
    /\ UNCHANGED addrOthers

\* lines 373 and 378: .to_vec() of the digest
ToVec ==
    /\ addr.pc = "keccak"
    /\ addr.round > 24
    /\ addr' = [addr EXCEPT !.pc = IF addr.digest = 1 THEN "insert_net" ELSE "truncate",
                            !.round = 0, !.state = <<>>,
                            !.bytes = Squeeze(addr.state)]
    /\ UNCHANGED addrOthers

\* line 377: first_hash.insert(0, net)
InsertNet ==
    /\ addr.pc = "insert_net"
    /\ addr' = [addr EXCEPT !.pc = "digest", !.digest = 2,
                            !.bytes = <<addr.net>> \o addr.bytes]
    /\ UNCHANGED addrOthers

\* line 379
TruncateHash ==
    /\ addr.pc = "truncate"
    /\ addr' = [addr EXCEPT !.pc = "encode", !.bytes = Truncate(addr.bytes)]
    /\ UNCHANGED addrOthers

\* lines 381-384: the PaymentAddress returned
Encode ==
    /\ addr.pc = "encode"
    /\ addr' = [addr EXCEPT
          !.pc = "done",
          !.result = Some([address |-> HexEncode(addr.bytes), net |-> addr.net])]
    /\ UNCHANGED addrOthers

AddrNext ==
    \/ SerializePubKey
    \/ Digest
    \/ KeccakRound
    \/ ToVec
    \/ InsertNet
    \/ TruncateHash
    \/ Encode

\* construct_address called on its own
AddrStart ==
    /\ WalletInit /\ ComputeOff /\ LockOff
    /\ storage = StorageOff /\ user = UserOff /\ upgrade = UpgradeOff
    /\ compute_main = MainOff
    /\ AddrInit

AddressSpec == AddrStart /\ [][AddrNext]_vars

=============================================================================
